---- MODULE Spec2Model ----
(***************************************************************************)
(* A model of the Adelos SDK: the memo codec (src/src/crypto.ts,           *)
(* src/src/utils.ts), the scalar/point stealth protocol and the raw-scalar *)
(* signer (src/src/crypto.ts), the transaction scanner                     *)
(* (src/unnamed/part_003, the AdelosIndexer) and the AdelosSDK calls       *)
(* unlockPrivacy, createStealthTransfer and createWithdrawTransaction      *)
(* (src/src/index.ts).                                                     *)
(*                                                                         *)
(* JavaScript strings are sequences of one-character strings, Uint8Arrays  *)
(* are sequences of integers in 0..255.  null is the value Null; a thrown  *)
(* exception is the value Throw (a byte-valued function) or NoScalar /     *)
(* NoPoint (an integer-valued one).                                        *)
(*                                                                         *)
(* The curve is the prime-order group generated by the base point, written *)
(* additively as the integers modulo L: a point is the multiple of the     *)
(* base point it equals.  L is a small prime standing for ed.CURVE.n, big  *)
(* enough that a scalar needs two bytes, so that byte order matters.       *)
(***************************************************************************)
EXTENDS Integers, Sequences, FiniteSets, TLC

VARIABLES
    \* --- memo codec harness
    memoIn,        \* the string handed to parseStealthMemo
    memoKey,       \* the key handed to generateStealthMemo (or <<>>)
    memoOut,       \* what parseStealthMemo returned: Null or a byte array
    memoPc,        \* "idle" | "generated" | "received" | "parsed"
    \* --- stealth protocol and signer harness
    metaSk,        \* the recipient's meta secret
    metaPk,        \* derivePublicKey(metaSk), or Throw
    ephSk,         \* the ephemeral secret the sender drew, or Null
    ephPk,         \* its public key
    senderSecret,  \* computeSharedSecret of the sender
    stealthPk,     \* the stealth public key the sender derived
    stealthMemo,   \* the memo the sender published, or <<>>
    recipSecret,   \* computeSharedSecretAsRecipient of the recipient
    stealthSk,     \* the stealth secret key the recipient recovered
    sigMsg,        \* the message last signed
    sigKey,        \* the scalar bytes it was signed with
    sigNonce,      \* the nonce bytes drawn for it
    signature,     \* what signWithScalar returned: Null, Throw or the bytes
    \* --- toScalar applied to byte buffers
    scalarIn,      \* the buffer handed to toScalar
    scalarOut,     \* what toScalar returned, NoScalar when it threw
    scalarPc,      \* "idle" | "ready" | "done"
    \* --- the derivation and recovery functions applied to 32-byte buffers
    deriveSecret,  \* the secret (ephemeralSk or metaSk) handed to them
    derivePoint,   \* the public key (metaPk or ephemeralPk) handed to them
    deriveShared,  \* the sharedSecret handed to them
    deriveOp,      \* the function that was applied, "" before that
    deriveOut,     \* what it returned, Throw when it threw, Null before
    \* --- scanner (AdelosIndexer.scanForStealthTransfers)
    scanSk,        \* the metaSk argument of the scan
    scanPk,        \* the metaPk argument of the scan
    limit,         \* the limit argument of the scan
    scanPc,        \* "idle" | "awaitSigs" | "awaitTx" | "returned" | "threw"
    sigs,          \* the signatures getSignaturesForAddress returned
    cursor,        \* position in sigs of the signature being fetched
    results,       \* the local list of matches of the running scan
    returned,      \* the list the scan returned (meaningful when "returned")
    requests,      \* the collaborator requests issued so far, in order
    listed,        \* the answer to the signature-list request:
                   \* "pending" | "list" | "error"
    fetched,       \* the collaborator's answer to each transaction request
    prepared,      \* what prepareWithdraw returned for an entry of the scan
                   \* and the signature made with its key, <<>> before that
    \* --- several scanForStealthTransfers invocations on one AdelosIndexer
    ledger,        \* the collaborator's answer to the transaction request for
                   \* each signature of the window, <<>> when not in use
    invocations,   \* the arguments and locals of each invocation, by name
    \* --- AdelosSDK.createWithdrawTransaction
    wdKey,         \* the stealthSecretKey argument
    wdAddress,     \* the stealthAddress argument
    wdAmount,      \* the amountLamports argument, NoAmount when omitted
    wdPc,          \* "idle" | "awaitBalance" | "awaitBlockhash" | "awaitSend" |
                   \* "awaitConfirm" | "returned" | "threw"
    wdBalance,     \* the balance getBalance reported, NoAmount before that
    wdFinal,       \* finalAmount, NoAmount while undefined
    wdSignature,   \* what signWithScalar returned: Null, Throw or the bytes
    wdRequests,    \* the collaborator requests issued so far, in order
    wdError,       \* "none" | "insufficient" | "rpc" | "sign"
    \* --- AdelosSDK.createStealthTransfer
    trPc,          \* "idle" | "awaitRegistry" | "awaitBlockhash" | "returned" |
                   \* "threw"
    trAmount,      \* the amountSOL argument, NoAmount before the first call
    trAccount,     \* what getAccountInfo resolved with:
                   \* "pending" | "missing" | "present"
    trMetaPk,      \* registry.account.metaPubkey, Null while there is none
    trEphPk,       \* the ephemeral public key generateStealthAddress drew
    trStealthPk,   \* the stealthPubkey it derived, Null before that
    trMemo,        \* the memo it produced, <<>> before that
    trInstructions,\* the instruction list, <<>> before it is built
    trBlockhash,   \* the blockhash of the built transaction, <<>> before that
    trRequests,    \* the collaborator requests of the running call, in order
    trError,       \* "none" | "unregistered" | "rpc" | "derive"
    trPrev,        \* what the last call that returned before the running one
                   \* returned, <<>> when there is none
    \* --- AdelosSDK.unlockPrivacy
    ulPc,          \* "idle" | "awaitSign" | "returned" | "threw"
    ulCalls,       \* the messages signMessage was called with by the running
                   \* invocation, in order
    ulSignature,   \* the signature signMessage resolved with, Null before
    ulKey,         \* the key the invocation returned, Null before
    ulPrev         \* signature and key of the last invocation that returned
                   \* before the running one, <<>> when there is none

memoVars == <<memoIn, memoKey, memoOut, memoPc>>
senderVars == <<ephSk, ephPk, senderSecret, stealthPk, stealthMemo>>
recipVars == <<recipSecret, stealthSk>>
signVars == <<sigMsg, sigKey, sigNonce, signature>>
scalarVars == <<scalarIn, scalarOut, scalarPc>>
deriveVars == <<deriveSecret, derivePoint, deriveShared, deriveOp, deriveOut>>
cryptoVars == <<metaSk, metaPk, senderVars, recipVars, signVars, scalarVars,
                deriveVars>>
oneScanVars == <<scanSk, scanPk, limit, scanPc, sigs, cursor, results, returned,
                 requests, listed, fetched, prepared>>
scanVars == <<oneScanVars, ledger, invocations>>
withdrawVars == <<wdKey, wdAddress, wdAmount, wdPc, wdBalance, wdFinal,
                  wdSignature, wdRequests, wdError>>
transferVars == <<trPc, trAmount, trAccount, trMetaPk, trEphPk, trStealthPk, trMemo,
                  trInstructions, trBlockhash, trRequests, trError, trPrev>>
unlockVars == <<ulPc, ulCalls, ulSignature, ulKey, ulPrev>>
sdkVars == <<withdrawVars, transferVars, unlockVars>>

-----------------------------------------------------------------------------
\* Program constants

\* bytes of a key, a scalar, a digest (crypto.ts:24, new Uint8Array(64) = 2 * 32)
KeyLen == 32
\* characters of the hex payload of a memo (crypto.ts:100)
HexLen == 64
\* radix of parseInt / toString (utils.ts:37, utils.ts:49)
Radix == 16
\* values of a byte (Uint8Array element)
ByteMod == 256

\* ADELOS_CONFIG.MEMO_PREFIX = "ADLSv1:"
MEMO_PREFIX == <<"A", "D", "L", "S", "v", "1", ":">>

\* the value of a function that returned null
Null == <<-1>>
\* the value of a byte-valued function that threw
Throw == <<-2>>

-----------------------------------------------------------------------------
\* JavaScript string and number helpers

\* const v = ...: the value is computed once and Body uses it by name
Bind(v, Body(_)) == Body(v)

Min(a, b) == IF a < b THEN a ELSE b
Max(a, b) == IF a > b THEN a ELSE b

\* Array.prototype.reverse
Reverse(s) == [i \in 1..Len(s) |-> s[Len(s) + 1 - i]]

\* String.prototype.startsWith
StartsWith(s, p) == Len(s) >= Len(p) /\ SubSeq(s, 1, Len(p)) = p

\* String.prototype.slice(n) / Uint8Array.prototype.slice(0, n)
SliceFrom(s, n) == SubSeq(s, n + 1, Len(s))
SliceTo(s, n) == SubSeq(s, 1, Min(n, Len(s)))

\* a padStart that pads nothing
PadStart_None(str, n, c) == str

\* String.prototype.padStart(n, c)
PadStart(s, n, c) ==
    IF Len(s) >= n THEN s ELSE [i \in 1..(n - Len(s)) |-> c] \o s

LowerHex == <<"0", "1", "2", "3", "4", "5", "6", "7", "8", "9",
              "a", "b", "c", "d", "e", "f">>
UpperHex == <<"0", "1", "2", "3", "4", "5", "6", "7", "8", "9",
              "A", "B", "C", "D", "E", "F">>

IsHexDigit(c) == \E i \in 1..Radix : LowerHex[i] = c \/ UpperHex[i] = c
DigitValue(c) == (CHOOSE i \in 1..Radix : LowerHex[i] = c \/ UpperHex[i] = c) - 1

IsLowerHexString(s) == \A i \in 1..Len(s) : \E d \in 1..Radix : LowerHex[d] = s[i]
IsHexString(s) == \A i \in 1..Len(s) : IsHexDigit(s[i])

\* Number.prototype.toString(16) of a non-negative integer: lowercase, no padding
RECURSIVE ToString16(_)
ToString16(n) ==
    IF n < Radix THEN <<LowerHex[n + 1]>>
    ELSE ToString16(n \div Radix) \o <<LowerHex[(n % Radix) + 1]>>

\* parseInt(s, 16) of a chunk of at most two characters.  Leading white space is
\* dropped, then a sign, then a "0x" marker; the longest prefix of hex digits is
\* the value and an empty prefix is NaN.
RECURSIVE DigitsPrefix(_)
DigitsPrefix(s) ==
    IF s = <<>> \/ ~IsHexDigit(Head(s)) THEN <<>>
    ELSE <<Head(s)>> \o DigitsPrefix(Tail(s))

RECURSIVE DigitsValue(_, _)
DigitsValue(s, acc) ==
    IF s = <<>> THEN acc
    ELSE DigitsValue(Tail(s), acc * Radix + DigitValue(Head(s)))

RECURSIVE TrimStart(_)
TrimStart(s) == IF s # <<>> /\ Head(s) = " " THEN TrimStart(Tail(s)) ELSE s

ParseInt16(chunk) ==
    LET t == TrimStart(chunk)
        neg == t # <<>> /\ Head(t) = "-"
        u == IF t # <<>> /\ Head(t) \in {"-", "+"} THEN Tail(t) ELSE t
        v == IF StartsWith(u, <<"0", "x">>) \/ StartsWith(u, <<"0", "X">>)
             THEN SliceFrom(u, 2) ELSE u
        d == DigitsPrefix(v)
    IN  [nan |-> d = <<>>,
         val |-> IF d = <<>> THEN 0
                 ELSE IF neg THEN 0 - DigitsValue(d, 0) ELSE DigitsValue(d, 0)]

\* storing a number into a Uint8Array element: NaN becomes 0, the rest wraps
ToUint8(p) == IF p.nan THEN 0 ELSE p.val % ByteMod

-----------------------------------------------------------------------------
\* src/src/utils.ts

hexToBytes(hex) ==
    LET cleanHex == IF StartsWith(hex, <<"0", "x">>) THEN SliceFrom(hex, 2) ELSE hex
        n == Len(cleanHex) \div 2
    IN  [i \in 1..n |-> ToUint8(ParseInt16(SubSeq(cleanHex, 2 * i - 1, 2 * i)))]

\* the two-digit hex of bytes lo..hi, joined (halving keeps the evaluation shallow)
RECURSIVE JoinHex(_, _, _)
JoinHex(bytes, lo, hi) ==
    IF lo > hi THEN <<>>
    ELSE IF lo = hi THEN PadStart(ToString16(bytes[lo]), 2, "0")
    ELSE LET mid == (lo + hi) \div 2
         IN  JoinHex(bytes, lo, mid) \o JoinHex(bytes, mid + 1, hi)

bytesToHex(bytes) == JoinHex(bytes, 1, Len(bytes))

-----------------------------------------------------------------------------
\* src/src/crypto.ts: the memo codec

generateStealthMemo(ephemeralPubkey) == MEMO_PREFIX \o bytesToHex(ephemeralPubkey)

\* hexToBytes has no throwing path for a string argument (parseInt yields NaN,
\* which a Uint8Array stores as 0), so the catch branch is never taken.
parseStealthMemo(memo) ==
    IF ~StartsWith(memo, MEMO_PREFIX) THEN Null
    ELSE LET pubkeyHex == SliceFrom(memo, Len(MEMO_PREFIX))
         IN  IF Len(pubkeyHex) # HexLen THEN Null
             ELSE hexToBytes(pubkeyHex)

-----------------------------------------------------------------------------
\* The curve library (@noble/ed25519) and the hashes (@noble/hashes) as the
\* code of src/src/crypto.ts uses them

\* ed.CURVE.n, the prime order of the base point (a small prime here)
L == 7919

\* a failed integer-valued computation (a thrown exception)
NoScalar == 0 - 1
NoPoint == 0 - 1

\* ed.ExtendedPoint.BASE
BASE == 1

\* b^e mod n
RECURSIVE PowMod(_, _, _)
PowMod(b, e, n) ==
    IF e = 0 THEN 1 % n
    ELSE Bind(PowMod(b, e \div 2, n), LAMBDA h :
             IF e % 2 = 0 THEN (h * h) % n ELSE (((h * h) % n) * (b % n)) % n)

\* ed.etc.mod(BigInt("0x" + hex), n): the value of digits lo..hi modulo n, which
\* is what reducing the exact integer gives
RECURSIVE BigIntHexModRange(_, _, _, _)
BigIntHexModRange(hex, n, lo, hi) ==
    IF lo > hi THEN 0
    ELSE IF lo = hi THEN DigitValue(hex[lo]) % n
    ELSE LET mid == (lo + hi) \div 2
         IN  (BigIntHexModRange(hex, n, lo, mid) * PowMod(Radix, hi - mid, n)
                + BigIntHexModRange(hex, n, mid + 1, hi)) % n

BigIntHexMod(hex, n) == BigIntHexModRange(hex, n, 1, Len(hex))

\* the n low bytes of v, little-endian (the integers of the model are below
\* 256^4, so the bytes after the fourth are 0)
LEBytes(v, n) ==
    [i \in 1..n |-> IF i > 4 THEN 0 ELSE (v \div (ByteMod ^ (i - 1))) % ByteMod]

\* the little-endian value of bytes when it is below cap, and cap otherwise
\* (cap is at most 256^3, so a non-zero byte after the third exceeds it)
LEValueCapped(bytes, cap) ==
    IF \E i \in 4..Len(bytes) : bytes[i] # 0 THEN cap
    ELSE Min(cap, (IF Len(bytes) >= 1 THEN bytes[1] ELSE 0)
                    + (IF Len(bytes) >= 2 THEN ByteMod * bytes[2] ELSE 0)
                    + (IF Len(bytes) >= 3 THEN ByteMod * ByteMod * bytes[3] ELSE 0))

\* Point.multiply(n): refuses n = 0 ("cannot multiply by 0")
multiply(P, n) ==
    IF P = NoPoint \/ n = NoScalar \/ n = 0 THEN NoPoint ELSE (P * n) % L

\* Point.add
add(P, Q) == IF P = NoPoint \/ Q = NoPoint THEN NoPoint ELSE (P + Q) % L

\* Point.toRawBytes: the 32-byte encoding of a point.  The last byte carries a
\* mark, so that the encoding of a point is not the encoding of a scalar.
PointMark == <<64>>
toRawBytes(P) ==
    IF P = NoPoint THEN Throw ELSE LEBytes(P, KeyLen - 1) \o PointMark

\* Point.fromHex: throws unless the hex string is the encoding of a point
fromHex(hex) ==
    Bind(hexToBytes(hex), LAMBDA bytes :
    Bind(LEValueCapped(SliceTo(bytes, KeyLen - 1), L), LAMBDA y :
        IF /\ Len(hex) = HexLen
           /\ IsHexString(hex)
           /\ SubSeq(bytes, KeyLen, KeyLen) = PointMark
           /\ y < L
        THEN y
        ELSE NoPoint))

\* A hash is modelled by polynomial hashes of its input.  No digest of sha256
\* reduces to the zero scalar (no such preimage is known), digests exceed L so
\* that the reduction acts, and both halves of a sha512 digest carry value.
\* the sum of (bytes[i] + 1) * m^(hi - i) over lo..hi, modulo n
RECURSIVE PolyHashRange(_, _, _, _, _)
PolyHashRange(bytes, m, n, lo, hi) ==
    IF lo > hi THEN 0
    ELSE IF lo = hi THEN (bytes[lo] + 1) % n
    ELSE LET mid == (lo + hi) \div 2
         IN  (PolyHashRange(bytes, m, n, lo, mid) * PowMod(m, hi - mid, n)
                + PolyHashRange(bytes, m, n, mid + 1, hi)) % n

PolyHash(bytes, m, n) == PolyHashRange(bytes, m, n, 1, Len(bytes))

sha256(bytes) ==
    LEBytes(1 + PolyHash(bytes, 131, L - 1) + L * PolyHash(bytes, 7, ByteMod),
            KeyLen)

sha512(bytes) ==
    LEBytes(PolyHash(bytes, 137, L) + L * PolyHash(bytes, 5, ByteMod), KeyLen)
        \o LEBytes(1 + PolyHash(bytes, 3, ByteMod - 1), KeyLen)

-----------------------------------------------------------------------------
\* src/src/crypto.ts: the stealth protocol

\* encoder.encode(ADELOS_CONFIG.STEALTH_DOMAIN), "adelos:stealth:v1" in UTF-8
STEALTH_DOMAIN ==
    <<97, 100, 101, 108, 111, 115, 58, 115, 116, 101, 97, 108, 116, 104, 58, 118, 49>>

toScalar(bytes) ==
    LET cleanBytes == IF Len(bytes) = 2 * KeyLen THEN SliceTo(bytes, KeyLen) ELSE bytes
        reversed == Reverse(cleanBytes)
    IN  IF reversed = <<>> THEN NoScalar
        ELSE BigIntHexMod(bytesToHex(reversed), L)

\* generateEphemeralKeypair, with the bytes ed.utils.randomPrivateKey() drew
generateEphemeralKeypair(secretKey) ==
    LET scalar == toScalar(secretKey)
        publicKey == toRawBytes(multiply(BASE, scalar))
    IN  [secretKey |-> secretKey, publicKey |-> publicKey]

derivePublicKey(secretKey) ==
    LET scalar == toScalar(secretKey)
    IN  toRawBytes(multiply(BASE, scalar))

computeSharedSecret(ephemeralSk, recipientMetaPk) ==
    LET point == fromHex(bytesToHex(recipientMetaPk))
        scalar == toScalar(ephemeralSk)
    IN  Bind(multiply(point, scalar), LAMBDA shared :
            IF shared = NoPoint THEN Throw ELSE sha256(toRawBytes(shared)))

\* a recipient that reads the meta secret big-endian (the reversal is forgotten)
computeSharedSecretAsRecipient_BigEndian(metaSk_, ephemeralPk) ==
    LET point == fromHex(bytesToHex(ephemeralPk))
        scalar == BigIntHexMod(bytesToHex(metaSk_), L)
    IN  Bind(multiply(point, scalar), LAMBDA shared :
            IF shared = NoPoint THEN Throw ELSE sha256(toRawBytes(shared)))

computeSharedSecretAsRecipient(metaSk_, ephemeralPk) ==
    LET point == fromHex(bytesToHex(ephemeralPk))
        scalar == toScalar(metaSk_)
    IN  Bind(multiply(point, scalar), LAMBDA shared :
            IF shared = NoPoint THEN Throw ELSE sha256(toRawBytes(shared)))

deriveStealthPubkey(metaPk_, sharedSecret) ==
    LET scalarBytes == sha256(sharedSecret \o STEALTH_DOMAIN)
        scalar == toScalar(scalarBytes)
        metaPoint == fromHex(bytesToHex(metaPk_))
        stealthPoint == add(metaPoint, multiply(BASE, scalar))
    IN  toRawBytes(stealthPoint)

\* a recovery that encodes the sum without reducing it modulo L
recoverStealthSecretKey_NoMod(metaSk_, sharedSecret) ==
    LET scalarBytes == sha256(sharedSecret \o STEALTH_DOMAIN)
        scalar == toScalar(scalarBytes)
        metaScalar == toScalar(metaSk_)
        stealthScalar == metaScalar + scalar
        hex == PadStart(ToString16(stealthScalar), HexLen, "0")
    IN  IF metaScalar = NoScalar THEN Throw ELSE Reverse(hexToBytes(hex))

\* a recovery that returns the big-endian bytes (the final reversal is forgotten)
recoverStealthSecretKey_NoReverse(metaSk_, sharedSecret) ==
    LET scalarBytes == sha256(sharedSecret \o STEALTH_DOMAIN)
        scalar == toScalar(scalarBytes)
        metaScalar == toScalar(metaSk_)
        stealthScalar == (metaScalar + scalar) % L
        hex == PadStart(ToString16(stealthScalar), HexLen, "0")
    IN  IF metaScalar = NoScalar THEN Throw ELSE hexToBytes(hex)

recoverStealthSecretKey(metaSk_, sharedSecret) ==
    LET scalarBytes == sha256(sharedSecret \o STEALTH_DOMAIN)
        scalar == toScalar(scalarBytes)
        metaScalar == toScalar(metaSk_)
        stealthScalar == (metaScalar + scalar) % L
        hex == PadStart(ToString16(stealthScalar), HexLen, "0")
    IN  IF metaScalar = NoScalar THEN Throw ELSE Reverse(hexToBytes(hex))

\* a generateStealthAddress whose memo carries the recipient's meta key
generateStealthAddress_MemoOfMetaKey(recipientMetaPk, drawn) ==
    Bind(generateEphemeralKeypair(drawn), LAMBDA ephemeralKeypair :
    Bind(IF ephemeralKeypair.publicKey = Throw THEN Throw
         ELSE computeSharedSecret(ephemeralKeypair.secretKey, recipientMetaPk),
         LAMBDA sharedSecret :
    Bind(IF sharedSecret = Throw THEN Throw
         ELSE deriveStealthPubkey(recipientMetaPk, sharedSecret),
         LAMBDA stealthPubkey :
        [threw |-> stealthPubkey = Throw,
         stealthPubkey |-> stealthPubkey,
         ephemeralKeypair |-> ephemeralKeypair,
         sharedSecret |-> sharedSecret,
         memo |-> IF stealthPubkey = Throw THEN <<>>
                  ELSE generateStealthMemo(recipientMetaPk)])))

\* generateStealthAddress, with the ephemeral secret its key generation drew;
\* threw says that one of its calls raised an exception and nothing is returned
generateStealthAddress(recipientMetaPk, drawn) ==
    Bind(generateEphemeralKeypair(drawn), LAMBDA ephemeralKeypair :
    Bind(IF ephemeralKeypair.publicKey = Throw THEN Throw
         ELSE computeSharedSecret(ephemeralKeypair.secretKey, recipientMetaPk),
         LAMBDA sharedSecret :
    Bind(IF sharedSecret = Throw THEN Throw
         ELSE deriveStealthPubkey(recipientMetaPk, sharedSecret),
         LAMBDA stealthPubkey :
        [threw |-> stealthPubkey = Throw,
         stealthPubkey |-> stealthPubkey,
         ephemeralKeypair |-> ephemeralKeypair,
         sharedSecret |-> sharedSecret,
         memo |-> IF stealthPubkey = Throw THEN <<>>
                  ELSE generateStealthMemo(ephemeralKeypair.publicKey)])))

-----------------------------------------------------------------------------
\* src/src/crypto.ts: the raw-scalar signer

\* a buffer sized without the message, which is dropped
SignContent_DropMessage(RBytes, pubBytes, message) == RBytes \o pubBytes

\* the buffer that is hashed into the challenge: R || A || M
SignContent(RBytes, pubBytes, message) == RBytes \o pubBytes \o message

\* the response S = (r + k * s) mod L
SignResponse(rScalar, k, scalar) == (rScalar + k * scalar) % L

\* a signer that takes the challenge from the digest with toScalar, which
\* reads only the first 32 of its 64 bytes
signWithScalar_ChallengeByToScalar(message, scalarBytes, rBytes) ==
    Bind(toScalar(scalarBytes), LAMBDA scalar :
    Bind(multiply(BASE, scalar), LAMBDA pubPoint :
    Bind(toScalar(rBytes), LAMBDA rScalar :
    Bind(multiply(BASE, rScalar), LAMBDA R :
        IF pubPoint = NoPoint \/ R = NoPoint THEN Throw
        ELSE Bind(toRawBytes(R), LAMBDA RBytes :
             LET pubBytes == toRawBytes(pubPoint)
                 content == SignContent(RBytes, pubBytes, message)
                 hram == sha512(content)
                 k == toScalar(hram)
                 S == SignResponse(rScalar, k, scalar)
                 sHexPadded == PadStart(ToString16(S), HexLen, "0")
                 SBytes == Reverse(hexToBytes(sHexPadded))
             IN  RBytes \o SBytes)))))

\* signWithScalar, with the nonce bytes ed.utils.randomPrivateKey() drew
signWithScalar(message, scalarBytes, rBytes) ==
    Bind(toScalar(scalarBytes), LAMBDA scalar :
    Bind(multiply(BASE, scalar), LAMBDA pubPoint :
    Bind(toScalar(rBytes), LAMBDA rScalar :
    Bind(multiply(BASE, rScalar), LAMBDA R :
        IF pubPoint = NoPoint \/ R = NoPoint THEN Throw
        ELSE Bind(toRawBytes(R), LAMBDA RBytes :
             LET pubBytes == toRawBytes(pubPoint)
                 content == SignContent(RBytes, pubBytes, message)
                 hram == sha512(content)
                 hramReversed == Reverse(hram)
                 k == BigIntHexMod(bytesToHex(hramReversed), L)
                 S == SignResponse(rScalar, k, scalar)
                 sHexPadded == PadStart(ToString16(S), HexLen, "0")
                 SBytes == Reverse(hexToBytes(sHexPadded))
             IN  RBytes \o SBytes)))))

\* ed.verify(signature, message, publicKey): the standard verification,
\* S.G = R + k.A with k the challenge of (R, A, message)
verify(sig, message, publicKey) ==
    /\ Len(sig) = 2 * KeyLen
    /\ LET A == fromHex(bytesToHex(publicKey))
           R == fromHex(bytesToHex(SliceTo(sig, KeyLen)))
           s == LEValueCapped(SliceFrom(sig, KeyLen), L)
           hashed == sha512(SliceTo(sig, KeyLen) \o publicKey \o message)
           k == BigIntHexMod(bytesToHex(Reverse(hashed)), L)
       IN  /\ A # NoPoint
           /\ R # NoPoint
           /\ s < L
           /\ (BASE * s) % L = (R + k * A) % L

-----------------------------------------------------------------------------
\* src/unnamed/part_003: the AdelosIndexer

\* ADELOS_CONFIG.MEMO_PROGRAM_ID and another program of the ledger
MEMO_PROGRAM_ID == "MemoSq4gqABAXKb96qnH8TysNcWxMyWCqXgDLGmfcHr"
SYSTEM_PROGRAM_ID == "11111111111111111111111111111111"

\* a memo that is null; the empty string stands for it, the code treating the
\* two alike (null?.startsWith is falsy, and memo || "" is "")
NullMemo == <<>>

\* Array.prototype.find / findIndex: the first position that satisfies the
\* test, 0 when there is none (positions count from 1)
FirstIndex(S) == IF S = {} THEN 0 ELSE CHOOSE i \in S : \A j \in S : i <= j

extractMemo(tx) ==
    LET ix == FirstIndex({i \in 1..Len(tx.instructions) :
                            tx.instructions[i].programId = MEMO_PROGRAM_ID})
    IN  IF ix = 0 THEN NullMemo ELSE tx.instructions[ix].parsed

\* balances[idx] || 0
BalanceAt(balances, idx) == IF idx <= Len(balances) THEN balances[idx] ELSE 0

\* the balance change taken as it is
ClampAmount_NoClamp(change) == change

\* change > 0n ? change : 0n
ClampAmount(change) == IF change > 0 THEN change ELSE 0

NoDetection(kind) ==
    [kind |-> kind, stealthAddress |-> Null, amount |-> 0, ephemeralPk |-> Null]

\* attemptDecryption; kind is "match", "null" (it returned null) or "throw"
attemptDecryption(tx, metaSk_, metaPk_) ==
    Bind(parseStealthMemo(extractMemo(tx)), LAMBDA ephemeralPk :
        IF ephemeralPk = Null THEN NoDetection("null")
        ELSE
    Bind(computeSharedSecretAsRecipient(metaSk_, ephemeralPk), LAMBDA secret :
    Bind(IF secret = Throw THEN Throw ELSE deriveStealthPubkey(metaPk_, secret),
         LAMBDA expected :
        IF expected = Throw THEN NoDetection("throw")
        ELSE
    Bind(bytesToHex(expected), LAMBDA expectedStealthHex :
    Bind(FirstIndex({i \in 1..Len(tx.accountKeys) :
                       bytesToHex(tx.accountKeys[i]) = expectedStealthHex}),
         LAMBDA idx :
        LET accounts == tx.accountKeys
            preBalances == IF tx.hasMeta THEN tx.preBalances ELSE <<>>
            postBalances == IF tx.hasMeta THEN tx.postBalances ELSE <<>>
            change == BalanceAt(postBalances, idx) - BalanceAt(preBalances, idx)
        IN  IF idx = 0 THEN NoDetection("null")
            ELSE [kind |-> "match",
                  stealthAddress |-> accounts[idx],
                  amount |-> ClampAmount(change),
                  ephemeralPk |-> ephemeralPk])))))

\* one pass of the loop body of scanForStealthTransfers on the transaction the
\* collaborator returned for signature s: "skip" (continue), "push" with the
\* entry appended to the results, or "throw"
ProcessTransaction(s, tx, metaSk_, metaPk_) ==
    IF ~StartsWith(extractMemo(tx), MEMO_PREFIX) THEN [kind |-> "skip", entry |-> <<>>]
    ELSE Bind(attemptDecryption(tx, metaSk_, metaPk_), LAMBDA detected :
        IF detected.kind = "throw" THEN [kind |-> "throw", entry |-> <<>>]
        ELSE IF detected.kind = "null" THEN [kind |-> "skip", entry |-> <<>>]
        ELSE [kind |-> "push",
              entry |-> <<[signature |-> s,
                           blockTime |-> tx.blockTime,
                           stealthAddress |-> detected.stealthAddress,
                           amount |-> detected.amount,
                           ephemeralPk |-> detected.ephemeralPk]>>])

\* a prepareWithdraw that hands back the shared secret as the key
prepareWithdraw_SharedSecretAsKey(stealthTx, metaSk_, metaPk_) ==
    Bind(computeSharedSecretAsRecipient(metaSk_, stealthTx.ephemeralPk),
         LAMBDA sharedSecret :
            [threw |-> sharedSecret = Throw,
             stealthTx |-> stealthTx,
             stealthSecretKey |-> sharedSecret])

\* prepareWithdraw: { ...stealthTx, stealthSecretKey }, or threw when one of
\* its two calls raised an exception
prepareWithdraw(stealthTx, metaSk_, metaPk_) ==
    Bind(computeSharedSecretAsRecipient(metaSk_, stealthTx.ephemeralPk),
         LAMBDA sharedSecret :
    Bind(IF sharedSecret = Throw THEN Throw
         ELSE recoverStealthSecretKey(metaSk_, sharedSecret),
         LAMBDA stealthSecretKey :
            [threw |-> stealthSecretKey = Throw,
             stealthTx |-> stealthTx,
             stealthSecretKey |-> stealthSecretKey]))

-----------------------------------------------------------------------------
\* The stealth protocol and the signer driven over bounded sets of secrets,
\* messages and nonces

NumMetaSecrets == 3
NumEphSecrets == 2
NumNonces == 2
NumMessages == 2

Repeat(c, n) == [i \in 1..n |-> c]

\* 32-byte secrets; number 0 of each family reduces to the zero scalar
MetaSecret(k) ==
    IF k = 0 THEN LEBytes(L, KeyLen)
    ELSE [j \in 1..KeyLen |-> (37 * k * j + 11 * k) % ByteMod]
EphSecret(k) ==
    IF k = 0 THEN Repeat(0, KeyLen)
    ELSE [j \in 1..KeyLen |-> (53 * k * j + 7) % ByteMod]
Nonce(k) ==
    IF k = 0 THEN LEBytes(2 * L, KeyLen)
    ELSE [j \in 1..KeyLen |-> (91 * k * j + 3) % ByteMod]

MetaSecrets == {MetaSecret(k) : k \in 0..(NumMetaSecrets - 1)}
EphSecrets == {EphSecret(k) : k \in 0..(NumEphSecrets - 1)}
Nonces == {Nonce(k) : k \in 0..(NumNonces - 1)}
Messages == {<<>>} \cup {LEBytes(k, 2) : k \in 1..NumMessages}

\* raw scalars handed to signWithScalar besides a recovered stealth key
RawScalars ==
    {Repeat(0, KeyLen), LEBytes(1, KeyLen), LEBytes(L - 1, KeyLen),
     Repeat(ByteMod - 1, KeyLen)} \cup MetaSecrets

\* number of fill patterns of the buffers handed to toScalar
NumScalarFills == 10

\* the lengths of those buffers: a single byte, an odd length, 32 bytes, one
\* byte more, and 64 bytes (the empty buffer is added below)
ScalarLengths == {1, 3, KeyLen, KeyLen + 1, 2 * KeyLen}

\* buffer number k of length len: all zero, all 255 (a value above L), or mixed
ScalarInput(len, k) ==
    IF k = 0 THEN Repeat(0, len)
    ELSE IF k = 1 THEN Repeat(ByteMod - 1, len)
    ELSE [j \in 1..len |-> (41 * k * j + 13 * k) % ByteMod]

ScalarInputs ==
    {<<>>} \cup {ScalarInput(len, k) : len \in ScalarLengths, k \in 0..NumScalarFills}

ScalarIdle ==
    /\ scalarIn = <<>>
    /\ scalarOut = NoScalar
    /\ scalarPc = "idle"

ScalarFresh ==
    /\ scalarIn \in ScalarInputs
    /\ scalarOut = NoScalar
    /\ scalarPc = "ready"

ProtocolIdle ==
    /\ metaSk = <<>>
    /\ metaPk = Null
    /\ ephSk = Null
    /\ ephPk = Null
    /\ senderSecret = Null
    /\ stealthPk = Null
    /\ stealthMemo = <<>>
    /\ recipSecret = Null
    /\ stealthSk = Null
    /\ sigMsg = <<>>
    /\ sigKey = Null
    /\ sigNonce = Null
    /\ signature = Null

\* the 32-byte secrets handed to the derivation and recovery functions: two
\* that reduce to the zero scalar and three that do not
DeriveSecrets ==
    {MetaSecret(0), Repeat(0, KeyLen), MetaSecret(1), MetaSecret(2), EphSecret(1)}

\* the 32-byte public keys handed to them: two encodings of a point and two
\* buffers that decode to no point
DerivePoints ==
    {derivePublicKey(MetaSecret(1)), derivePublicKey(EphSecret(1)),
     Repeat(2, KeyLen), Repeat(0, KeyLen)}

\* the 32-byte shared secrets handed to them
DeriveSharedSecrets == {sha256(<<1>>), Repeat(0, KeyLen), Repeat(ByteMod - 1, KeyLen)}

DeriveIdle ==
    /\ deriveSecret = <<>>
    /\ derivePoint = <<>>
    /\ deriveShared = <<>>
    /\ deriveOp = ""
    /\ deriveOut = Null

DeriveFresh ==
    /\ deriveSecret \in DeriveSecrets
    /\ derivePoint \in DerivePoints
    /\ deriveShared \in DeriveSharedSecrets
    /\ deriveOp = ""
    /\ deriveOut = Null

CryptoIdle == ProtocolIdle /\ ScalarIdle /\ DeriveIdle

\* the recipient holds a meta secret and publishes its public key
CryptoFresh ==
    /\ ScalarIdle
    /\ DeriveIdle
    /\ metaSk \in MetaSecrets
    /\ metaPk = derivePublicKey(metaSk)
    /\ ephSk = Null
    /\ ephPk = Null
    /\ senderSecret = Null
    /\ stealthPk = Null
    /\ stealthMemo = <<>>
    /\ recipSecret = Null
    /\ stealthSk = Null
    /\ sigMsg = <<>>
    /\ sigKey = Null
    /\ sigNonce = Null
    /\ signature = Null

\* the sender runs generateStealthAddress on the published meta public key
SenderDerive ==
    /\ metaPk # Throw
    /\ ephSk = Null
    /\ \E drawn \in EphSecrets :
         \E r \in {generateStealthAddress(metaPk, drawn)} :
             /\ ephSk' = drawn
             /\ ephPk' = r.ephemeralKeypair.publicKey
             /\ senderSecret' = IF r.threw THEN Throw ELSE r.sharedSecret
             /\ stealthPk' = IF r.threw THEN Throw ELSE r.stealthPubkey
             /\ stealthMemo' = IF r.threw THEN <<>> ELSE r.memo
    /\ UNCHANGED <<metaSk, metaPk, recipVars, signVars, memoVars, scanVars, sdkVars, scalarVars, deriveVars>>

\* the recipient reads the memo and recovers the stealth secret key
RecipientRecover ==
    /\ stealthMemo # <<>>
    /\ recipSecret = Null
    /\ \E sharedSecret \in
             {computeSharedSecretAsRecipient(metaSk, parseStealthMemo(stealthMemo))} :
           /\ recipSecret' = sharedSecret
           /\ stealthSk' = IF sharedSecret = Throw THEN Throw
                           ELSE recoverStealthSecretKey(metaSk, sharedSecret)
    /\ UNCHANGED <<metaSk, metaPk, senderVars, signVars, memoVars, scanVars, sdkVars, scalarVars, deriveVars>>

\* a message is signed with a raw scalar or with the recovered stealth key
Sign ==
    /\ signature = Null
    /\ \E message \in Messages, rBytes \in Nonces,
          scalarBytes \in RawScalars \cup ({stealthSk} \ {Null, Throw}) :
         /\ sigMsg' = message
         /\ sigKey' = scalarBytes
         /\ sigNonce' = rBytes
         /\ signature' = signWithScalar(message, scalarBytes, rBytes)
    /\ UNCHANGED <<metaSk, metaPk, senderVars, recipVars, memoVars, scanVars, sdkVars, scalarVars, deriveVars>>

CryptoNext == SenderDerive \/ RecipientRecover \/ Sign

\* toScalar is applied to the buffer
ScalarApply ==
    /\ scalarPc = "ready"
    /\ scalarOut' = toScalar(scalarIn)
    /\ scalarPc' = "done"
    /\ UNCHANGED scalarIn
    /\ UNCHANGED <<metaSk, metaPk, senderVars, recipVars, signVars, deriveVars>>
    /\ UNCHANGED <<memoVars, scanVars, sdkVars>>

ScalarNext == ScalarApply

\* one of the functions is applied to the buffers and its outcome is kept
DeriveApply(op, out) ==
    /\ deriveOp = ""
    /\ deriveOp' = op
    /\ deriveOut' = out
    /\ UNCHANGED <<deriveSecret, derivePoint, deriveShared>>
    /\ UNCHANGED <<metaSk, metaPk, senderVars, recipVars, signVars, scalarVars>>
    /\ UNCHANGED <<memoVars, scanVars, sdkVars>>

SharedSecretApply ==
    DeriveApply("computeSharedSecret",
                computeSharedSecret(deriveSecret, derivePoint))

SharedSecretAsRecipientApply ==
    DeriveApply("computeSharedSecretAsRecipient",
                computeSharedSecretAsRecipient(deriveSecret, derivePoint))

StealthPubkeyApply ==
    DeriveApply("deriveStealthPubkey",
                deriveStealthPubkey(derivePoint, deriveShared))

RecoverApply ==
    DeriveApply("recoverStealthSecretKey",
                recoverStealthSecretKey(deriveSecret, deriveShared))

DeriveNext ==
    \/ SharedSecretApply
    \/ SharedSecretAsRecipientApply
    \/ StealthPubkeyApply
    \/ RecoverApply

-----------------------------------------------------------------------------
\* The scanner driven against a collaborator that answers each request with a
\* list of signatures, a transaction of the catalogue, nothing, or an error

\* most signatures the collaborator returns
MaxSigs == 2

RecipientA == [sk |-> MetaSecret(1), pk |-> derivePublicKey(MetaSecret(1))]
RecipientB == [sk |-> MetaSecret(2), pk |-> derivePublicKey(MetaSecret(2))]
Recipients == {RecipientA, RecipientB}

\* what two senders derived for the recipients
SentToA == generateStealthAddress(RecipientA.pk, EphSecret(1))
SentToB == generateStealthAddress(RecipientB.pk, EphSecret(2))
SentToAAgain == generateStealthAddress(RecipientA.pk, EphSecret(2))

SenderKey == Repeat(9, KeyLen)
NullTime == 0 - 1

SystemIx == [programId |-> SYSTEM_PROGRAM_ID, parsed |-> <<>>]
MemoIx(text) == [programId |-> MEMO_PROGRAM_ID, parsed |-> text]

\* a transfer of the sender to destination, with its memo instruction
TransferTx(destination, memoText, pre, post, time) ==
    [instructions |-> <<SystemIx, MemoIx(memoText)>>,
     accountKeys |-> <<SenderKey, destination>>,
     hasMeta |-> TRUE,
     preBalances |-> pre,
     postBalances |-> post,
     blockTime |-> time]

\* the transactions of the ledger, given what the senders derived
Catalogue(toA, toB, toAAgain) ==
    << \* 1: a stealth transfer to recipient A, 100 lamports received
       TransferTx(toA.stealthPubkey, toA.memo, <<900, 0>>, <<795, 100>>, 1700),
       \* 2: a stealth transfer to recipient B, 50 lamports received
       TransferTx(toB.stealthPubkey, toB.memo, <<500, 20>>, <<445, 70>>, NullTime),
       \* 3: the memo of 1 under another prefix
       TransferTx(toA.stealthPubkey,
                  <<"A", "D", "L", "S", "v", "2", ":">>
                      \o SliceFrom(toA.memo, Len(MEMO_PREFIX)),
                  <<900, 0>>, <<795, 100>>, 1701),
       \* 4: no memo instruction
       [TransferTx(toA.stealthPubkey, <<>>, <<900, 0>>, <<795, 100>>, 1702)
            EXCEPT !.instructions = <<SystemIx>>],
       \* 5: the stealth address of A pays out: its balance decreases
       TransferTx(toAAgain.stealthPubkey, toAAgain.memo,
                  <<10, 100>>, <<5, 40>>, 1703),
       \* 6: a transfer to A whose execution metadata is missing
       [TransferTx(toA.stealthPubkey, toA.memo, <<>>, <<>>, 1704)
            EXCEPT !.hasMeta = FALSE],
       \* 7: a well-formed memo whose 32 bytes are the encoding of no point
       TransferTx(toA.stealthPubkey,
                  MEMO_PREFIX \o bytesToHex(Repeat(2, KeyLen)),
                  <<900, 0>>, <<795, 100>>, 1705),
       \* 8: a payload of 63 characters
       TransferTx(toA.stealthPubkey,
                  SubSeq(toA.memo, 1, Len(toA.memo) - 1),
                  <<900, 0>>, <<795, 100>>, 1706),
       \* 9: a foreign memo instruction before the memo of a transfer to A
       [TransferTx(toA.stealthPubkey, toA.memo, <<900, 0>>, <<795, 100>>, 1707)
            EXCEPT !.instructions =
                <<MemoIx(<<"h", "i">>), SystemIx, MemoIx(toA.memo)>>] >>

TxCatalogue == Catalogue(SentToA, SentToB, SentToAAgain)

\* the collaborator found no transaction / reported a transport error
NullResp == 0
ErrorResp == 0 - 1

SignaturesRequest(n) ==
    [op |-> "getSignaturesForAddress", address |-> MEMO_PROGRAM_ID, arg |-> n]
TransactionRequest(s) ==
    [op |-> "getParsedTransaction", address |-> "", arg |-> s]

\* no invocation is modelled by name
InvocationsIdle ==
    /\ ledger = <<>>
    /\ invocations = <<>>

OneScanIdle ==
    /\ scanSk = <<>>
    /\ scanPk = <<>>
    /\ limit = 0
    /\ scanPc = "idle"
    /\ sigs = <<>>
    /\ cursor = 0
    /\ results = <<>>
    /\ returned = <<>>
    /\ requests = <<>>
    /\ listed = "pending"
    /\ fetched = <<>>
    /\ prepared = <<>>

ScanIdle == OneScanIdle /\ InvocationsIdle

\* a recipient is about to scan one signature or the whole window
ScanFresh ==
    /\ InvocationsIdle
    /\ \E r \in Recipients : scanSk = r.sk /\ scanPk = r.pk
    /\ limit \in {1, MaxSigs}
    /\ scanPc = "idle"
    /\ sigs = <<>>
    /\ cursor = 0
    /\ results = <<>>
    /\ returned = <<>>
    /\ requests = <<>>
    /\ listed = "pending"
    /\ fetched = <<>>
    /\ prepared = <<>>

\* scanForStealthTransfers is called: it asks for the signature list and waits
ScanStart ==
    /\ scanPc = "idle"
    /\ requests' = Append(requests, SignaturesRequest(limit))
    /\ scanPc' = "awaitSigs"
    /\ UNCHANGED <<scanSk, scanPk, limit, sigs, cursor, results, returned,
                   listed, fetched>>
    /\ UNCHANGED <<prepared, ledger, invocations, memoVars, cryptoVars, sdkVars>>

\* a loop that asks for every transaction of the list when it starts
ScanAdvance_Prefetch(list, next, found) ==
    IF next > Len(list)
    THEN /\ scanPc' = "returned"
         /\ returned' = found
         /\ UNCHANGED <<cursor, requests>>
    ELSE /\ scanPc' = "awaitTx"
         /\ cursor' = next
         /\ requests' = IF next = 1
                        THEN requests \o [i \in 1..Len(list) |->
                                              TransactionRequest(list[i])]
                        ELSE requests
         /\ UNCHANGED returned

\* the loop moves to position next of list: it asks for that transaction, or
\* returns the results when the list is exhausted
ScanAdvance(list, next, found) ==
    IF next > Len(list)
    THEN /\ scanPc' = "returned"
         /\ returned' = found
         /\ UNCHANGED <<cursor, requests>>
    ELSE /\ scanPc' = "awaitTx"
         /\ cursor' = next
         /\ requests' = Append(requests, TransactionRequest(list[next]))
         /\ UNCHANGED returned

\* the signature list arrives (at most limit signatures, most recent first)
SigsResolve ==
    /\ scanPc = "awaitSigs"
    /\ \E n \in 0..Min(limit, MaxSigs) :
         LET list == [i \in 1..n |-> i]
         IN  /\ sigs' = list
             /\ results' = <<>>
             /\ ScanAdvance(list, 1, <<>>)
    /\ listed' = "list"
    /\ UNCHANGED <<scanSk, scanPk, limit, fetched>>
    /\ UNCHANGED <<prepared, ledger, invocations, memoVars, cryptoVars, sdkVars>>

\* a scan that takes a failed signature-list request for an empty list
SigsReject_EmptyList ==
    /\ scanPc = "awaitSigs"
    /\ listed' = "error"
    /\ scanPc' = "returned"
    /\ UNCHANGED <<scanSk, scanPk, limit, sigs, cursor, results, returned,
                   requests, fetched>>
    /\ UNCHANGED <<prepared, ledger, invocations, memoVars, cryptoVars, sdkVars>>

\* the signature-list request fails: the await throws out of the scan
SigsReject ==
    /\ scanPc = "awaitSigs"
    /\ listed' = "error"
    /\ scanPc' = "threw"
    /\ UNCHANGED <<scanSk, scanPk, limit, sigs, cursor, results, returned,
                   requests, fetched>>
    /\ UNCHANGED <<prepared, ledger, invocations, memoVars, cryptoVars, sdkVars>>

\* a loop body that puts a match at the front of the results
TxResolve_Unshift ==
    /\ scanPc = "awaitTx"
    /\ \E catalogue \in {TxCatalogue} :
       \E k \in {NullResp} \cup (1..Len(catalogue)) :
       \E out \in {IF k = NullResp THEN [kind |-> "skip", entry |-> <<>>]
                   ELSE ProcessTransaction(sigs[cursor], catalogue[k], scanSk, scanPk)} :
             /\ fetched' = Append(fetched, k)
             /\ IF out.kind = "throw"
                THEN /\ scanPc' = "threw"
                     /\ UNCHANGED <<cursor, results, returned, requests>>
                ELSE /\ results' = out.entry \o results
                     /\ ScanAdvance(sigs, cursor + 1, out.entry \o results)
    /\ UNCHANGED <<scanSk, scanPk, limit, sigs, listed>>
    /\ UNCHANGED <<prepared, ledger, invocations, memoVars, cryptoVars, sdkVars>>

\* the transaction request is answered with a transaction or with nothing
TxResolve ==
    /\ scanPc = "awaitTx"
    /\ \E catalogue \in {TxCatalogue} :
       \E k \in {NullResp} \cup (1..Len(catalogue)) :
       \E out \in {IF k = NullResp THEN [kind |-> "skip", entry |-> <<>>]
                   ELSE ProcessTransaction(sigs[cursor], catalogue[k], scanSk, scanPk)} :
             /\ fetched' = Append(fetched, k)
             /\ IF out.kind = "throw"
                THEN /\ scanPc' = "threw"
                     /\ UNCHANGED <<cursor, results, returned, requests>>
                ELSE /\ results' = results \o out.entry
                     /\ ScanAdvance(sigs, cursor + 1, results \o out.entry)
    /\ UNCHANGED <<scanSk, scanPk, limit, sigs, listed>>
    /\ UNCHANGED <<prepared, ledger, invocations, memoVars, cryptoVars, sdkVars>>

\* the transaction request fails: the await throws out of the scan
TxReject ==
    /\ scanPc = "awaitTx"
    /\ fetched' = Append(fetched, ErrorResp)
    /\ scanPc' = "threw"
    /\ UNCHANGED <<scanSk, scanPk, limit, sigs, cursor, results, returned,
                   requests, listed>>
    /\ UNCHANGED <<prepared, ledger, invocations, memoVars, cryptoVars, sdkVars>>

\* the message the recipient signs to spend from a stealth address
SpendMessage == LEBytes(NumMessages, 2)

\* the recipient takes a returned transaction to prepareWithdraw and signs a
\* message with the recovered key
PrepareWithdraw ==
    /\ scanPc = "returned"
    /\ prepared = <<>>
    /\ \E j \in 1..Len(returned) :
       \E w \in {prepareWithdraw(returned[j], scanSk, scanPk)} :
       \E message \in {SpendMessage}, rBytes \in Nonces :
           prepared' =
               << [withdrawable |-> w,
                   message |-> message,
                   signature |-> IF w.threw THEN Null
                                 ELSE signWithScalar(message, w.stealthSecretKey,
                                                     rBytes)] >>
    /\ UNCHANGED <<scanSk, scanPk, limit, scanPc, sigs, cursor, results,
                   returned, requests, listed, fetched>>
    /\ UNCHANGED <<ledger, invocations, memoVars, cryptoVars, sdkVars>>

ScanNext ==
    \/ ScanStart
    \/ SigsResolve \/ SigsReject
    \/ TxResolve \/ TxReject
    \/ PrepareWithdraw

-----------------------------------------------------------------------------
\* Two invocations of scanForStealthTransfers on one AdelosIndexer, run one
\* after the other or interleaved at their awaits, against a collaborator
\* that gives the same answer to the same request.  The indexer's only field
\* is the connection; the arguments and locals belong to each invocation.

Invocations == {"earlier", "later"}

\* what the collaborator may hold for a signature: nothing, the transfer to
\* recipient A or the transfer to recipient B
LedgerAnswers == {NullResp, 1, 2}

\* the signatures the collaborator lists, most recent first
Window == [i \in 1..Len(ledger) |-> i]

IdleInvocation ==
    [pc |-> "idle", sk |-> <<>>, pk |-> <<>>, limit |-> 0, sigs |-> <<>>,
     cursor |-> 0, results |-> <<>>, returned |-> <<>>, requests |-> <<>>]

\* a results list that is kept on the indexer: an invocation starts with
\* what the invocations before it have accumulated
InitialResults_Shared(others) ==
    IF others = {} THEN <<>>
    ELSE (CHOOSE o \in others :
              \A q \in others : Len(o.results) >= Len(q.results)).results

\* const results: StealthTransaction[] = [] whatever the other invocations,
\* others, hold
InitialResults(others) == <<>>

InvocationsFresh ==
    /\ ledger \in [1..MaxSigs -> LedgerAnswers]
    /\ invocations = [n \in Invocations |-> IdleInvocation]

\* invocation n is called: it asks for the signature list and waits
InvocationStart(n) ==
    /\ invocations[n].pc = "idle"
    /\ \E r \in Recipients, lim \in {1, MaxSigs} :
           invocations' = [invocations EXCEPT ![n] =
               [@ EXCEPT !.pc = "awaitSigs", !.sk = r.sk, !.pk = r.pk,
                         !.limit = lim,
                         !.requests = <<SignaturesRequest(lim)>>]]
    /\ UNCHANGED <<ledger, oneScanVars, memoVars, cryptoVars, sdkVars>>

\* a loop that leaves the list as soon as it has found a transfer
InvocationAdvance_StopAtMatch(inv, list, next, found) ==
    IF next > Len(list) \/ found # <<>>
    THEN [inv EXCEPT !.pc = "returned", !.sigs = list, !.results = found,
                     !.returned = found]
    ELSE [inv EXCEPT !.pc = "awaitTx", !.sigs = list, !.results = found,
                     !.cursor = next,
                     !.requests = Append(@, TransactionRequest(list[next]))]

\* the loop of invocation inv moves to position next of list with the results
\* found: it asks for that transaction and awaits it, or returns found
InvocationAdvance(inv, list, next, found) ==
    IF next > Len(list)
    THEN [inv EXCEPT !.pc = "returned", !.sigs = list, !.results = found,
                     !.returned = found]
    ELSE [inv EXCEPT !.pc = "awaitTx", !.sigs = list, !.results = found,
                     !.cursor = next,
                     !.requests = Append(@, TransactionRequest(list[next]))]

\* the signature list of invocation n arrives
InvocationSigs(n) ==
    /\ invocations[n].pc = "awaitSigs"
    /\ \E first \in {InitialResults({invocations[o] : o \in Invocations \ {n}})} :
           invocations' = [invocations EXCEPT ![n] =
               InvocationAdvance(@, SliceTo(Window, Min(@.limit, Len(Window))),
                                 1, first)]
    /\ UNCHANGED <<ledger, oneScanVars, memoVars, cryptoVars, sdkVars>>

\* the transaction request of invocation n is answered
InvocationTx(n) ==
    /\ invocations[n].pc = "awaitTx"
    /\ \E inv \in {invocations[n]}, catalogue \in {TxCatalogue} :
       \E k \in {ledger[inv.sigs[inv.cursor]]} :
       \E out \in {IF k = NullResp THEN [kind |-> "skip", entry |-> <<>>]
                   ELSE ProcessTransaction(inv.sigs[inv.cursor], catalogue[k],
                                           inv.sk, inv.pk)} :
           invocations' = [invocations EXCEPT ![n] =
               IF out.kind = "throw" THEN [inv EXCEPT !.pc = "threw"]
               ELSE InvocationAdvance(inv, inv.sigs, inv.cursor + 1,
                                      inv.results \o out.entry)]
    /\ UNCHANGED <<ledger, oneScanVars, memoVars, cryptoVars, sdkVars>>

InvocationsNext ==
    \/ \E n \in Invocations : InvocationStart(n)
    \/ \E n \in Invocations : InvocationSigs(n)
    \/ \E n \in Invocations : InvocationTx(n)

-----------------------------------------------------------------------------
\* src/src/index.ts: AdelosSDK.createWithdrawTransaction, driven against a
\* collaborator that answers each request or reports an error

\* const FEE_BUFFER = 5000
FEE_BUFFER == 5000

\* amountLamports left out (undefined)
NoAmount == 0 - 1

\* a balance test that lets a balance equal to the fee buffer through
InsufficientFunds_Strict(balance) == balance < FEE_BUFFER

\* balance <= FEE_BUFFER
InsufficientFunds(balance) == balance <= FEE_BUFFER

\* the balances the collaborator may report for the stealth address
Balances == {0, FEE_BUFFER - 1, FEE_BUFFER, FEE_BUFFER + 1, 2 * FEE_BUFFER}

\* the amounts a caller may name
Amounts == {0, 1, FEE_BUFFER, FEE_BUFFER + 2000}

\* the secret keys a caller may pass: a stealth key and the zero scalar
WithdrawKeys == {MetaSecret(1), Repeat(0, KeyLen)}

Destination == Repeat(7, KeyLen)
\* the blockhashes the collaborator may report
Blockhashes == {<<11, 22>>, <<33, 44>>}
SentSignature == <<33, 44>>

\* message.serialize() of the v0 message with the single transfer instruction
WithdrawMessage(from, to, lamports, blockhash) ==
    from \o to \o LEBytes(lamports, 8) \o blockhash

WithdrawRequest(op, arg) == [op |-> op, arg |-> arg]

WithdrawIdle ==
    /\ wdKey = <<>>
    /\ wdAddress = <<>>
    /\ wdAmount = NoAmount
    /\ wdPc = "idle"
    /\ wdBalance = NoAmount
    /\ wdFinal = NoAmount
    /\ wdSignature = Null
    /\ wdRequests = <<>>
    /\ wdError = "none"

\* a caller is about to withdraw from a stealth address, with or without an
\* amount
WithdrawFresh ==
    /\ \E k \in WithdrawKeys :
         /\ wdKey = k
         /\ \E pk \in {derivePublicKey(k)} :
              wdAddress = IF pk = Throw THEN Repeat(5, KeyLen) ELSE pk
    /\ wdAmount \in Amounts \cup {NoAmount}
    /\ wdPc = "idle"
    /\ wdBalance = NoAmount
    /\ wdFinal = NoAmount
    /\ wdSignature = Null
    /\ wdRequests = <<>>
    /\ wdError = "none"

\* createWithdrawTransaction is called: without an amount it asks for the
\* balance, with one it goes on to the blockhash
WithdrawCall ==
    /\ wdPc = "idle"
    /\ IF wdAmount = NoAmount
       THEN /\ wdRequests' = Append(wdRequests, WithdrawRequest("getBalance", wdAddress))
            /\ wdPc' = "awaitBalance"
            /\ UNCHANGED wdFinal
       ELSE /\ wdFinal' = wdAmount
            /\ wdRequests' = Append(wdRequests, WithdrawRequest("getLatestBlockhash", <<>>))
            /\ wdPc' = "awaitBlockhash"
    /\ UNCHANGED <<wdKey, wdAddress, wdAmount, wdBalance, wdSignature, wdError>>
    /\ UNCHANGED <<memoVars, cryptoVars, scanVars, transferVars, unlockVars>>

\* the balance arrives: it is refused when the fee buffer is not covered
BalanceResolve ==
    /\ wdPc = "awaitBalance"
    /\ \E balance \in Balances :
         /\ wdBalance' = balance
         /\ IF InsufficientFunds(balance)
            THEN /\ wdPc' = "threw"
                 /\ wdError' = "insufficient"
                 /\ UNCHANGED <<wdFinal, wdRequests>>
            ELSE /\ wdFinal' = balance - FEE_BUFFER
                 /\ wdRequests' = Append(wdRequests,
                                         WithdrawRequest("getLatestBlockhash", <<>>))
                 /\ wdPc' = "awaitBlockhash"
                 /\ UNCHANGED wdError
    /\ UNCHANGED <<wdKey, wdAddress, wdAmount, wdSignature>>
    /\ UNCHANGED <<memoVars, cryptoVars, scanVars, transferVars, unlockVars>>

\* a request of the withdrawal in state pc fails: the await throws
WithdrawReject(pc) ==
    /\ wdPc = pc
    /\ wdPc' = "threw"
    /\ wdError' = "rpc"
    /\ UNCHANGED <<wdKey, wdAddress, wdAmount, wdBalance, wdFinal, wdSignature,
                   wdRequests>>
    /\ UNCHANGED <<memoVars, cryptoVars, scanVars, transferVars, unlockVars>>

BalanceReject == WithdrawReject("awaitBalance")

\* a withdrawal that sends the transaction before the signature is attached
BlockhashResolve_SendUnsigned ==
    /\ wdPc = "awaitBlockhash"
    /\ \E blockhash \in Blockhashes, rBytes \in Nonces :
       \E message \in {WithdrawMessage(wdAddress, Destination, wdFinal, blockhash)} :
       \E sig \in {signWithScalar(message, wdKey, rBytes)} :
         /\ wdSignature' = sig
         /\ wdRequests' = Append(wdRequests,
                                 WithdrawRequest("sendRawTransaction", message))
         /\ wdPc' = "awaitSend"
         /\ UNCHANGED wdError
    /\ UNCHANGED <<wdKey, wdAddress, wdAmount, wdBalance, wdFinal>>
    /\ UNCHANGED <<memoVars, cryptoVars, scanVars, transferVars, unlockVars>>

\* the blockhash arrives: the message is built and signed with the scalar, the
\* signature attached and the transaction sent
BlockhashResolve ==
    /\ wdPc = "awaitBlockhash"
    /\ \E blockhash \in Blockhashes, rBytes \in Nonces :
       \E message \in {WithdrawMessage(wdAddress, Destination, wdFinal, blockhash)} :
       \E sig \in {signWithScalar(message, wdKey, rBytes)} :
         /\ wdSignature' = sig
         /\ IF sig = Throw
            THEN /\ wdPc' = "threw"
                 /\ wdError' = "sign"
                 /\ UNCHANGED wdRequests
            ELSE /\ wdRequests' = Append(wdRequests,
                                         WithdrawRequest("sendRawTransaction",
                                                         message \o sig))
                 /\ wdPc' = "awaitSend"
                 /\ UNCHANGED wdError
    /\ UNCHANGED <<wdKey, wdAddress, wdAmount, wdBalance, wdFinal>>
    /\ UNCHANGED <<memoVars, cryptoVars, scanVars, transferVars, unlockVars>>

BlockhashReject == WithdrawReject("awaitBlockhash")

\* the transaction was accepted: its confirmation is awaited
SendResolve ==
    /\ wdPc = "awaitSend"
    /\ wdRequests' = Append(wdRequests,
                            WithdrawRequest("confirmTransaction", SentSignature))
    /\ wdPc' = "awaitConfirm"
    /\ UNCHANGED <<wdKey, wdAddress, wdAmount, wdBalance, wdFinal, wdSignature,
                   wdError>>
    /\ UNCHANGED <<memoVars, cryptoVars, scanVars, transferVars, unlockVars>>

SendReject == WithdrawReject("awaitSend")

\* the confirmation arrives: { transaction, signature } is returned
ConfirmResolve ==
    /\ wdPc = "awaitConfirm"
    /\ wdPc' = "returned"
    /\ UNCHANGED <<wdKey, wdAddress, wdAmount, wdBalance, wdFinal, wdSignature,
                   wdRequests, wdError>>
    /\ UNCHANGED <<memoVars, cryptoVars, scanVars, transferVars, unlockVars>>

ConfirmReject == WithdrawReject("awaitConfirm")

WithdrawNext ==
    \/ WithdrawCall
    \/ BalanceResolve \/ BalanceReject
    \/ BlockhashResolve \/ BlockhashReject
    \/ SendResolve \/ SendReject
    \/ ConfirmResolve \/ ConfirmReject

-----------------------------------------------------------------------------
\* src/src/index.ts: AdelosSDK.getRegistry and createStealthTransfer, driven
\* against a collaborator that answers each request or reports an error

\* getAccountInfo resolved with null
NoAccount == Null

\* lamports in one SOL: amountSOL * 1e9
LAMPORTS_PER_SOL == 1000000000

\* the bytes before the account fields (the discriminator, skipped by slice(8))
DiscriminatorLen == 8

\* the data of a registry account: discriminator, owner, metaPubkey, bump
AccountData(owner, metaPubkey) ==
    Repeat(0, DiscriminatorLen) \o owner \o metaPubkey \o <<ByteMod - 1>>

\* a registry lookup that answers a missing account with the owner's own key
getRegistry_FallbackToOwner(owner, accountInfo) ==
    IF accountInfo = NoAccount
    THEN [exists |-> TRUE, metaPubkey |-> owner]
    ELSE [exists |-> TRUE,
          metaPubkey |-> SubSeq(SliceFrom(accountInfo, DiscriminatorLen),
                                KeyLen + 1, 2 * KeyLen)]

\* getRegistry, given what getAccountInfo resolved with
getRegistry(owner, accountInfo) ==
    IF accountInfo = NoAccount
    THEN [exists |-> FALSE, metaPubkey |-> Null]
    ELSE [exists |-> TRUE,
          metaPubkey |-> SubSeq(SliceFrom(accountInfo, DiscriminatorLen),
                                KeyLen + 1, 2 * KeyLen)]

\* the receiver's wallet key and the amounts a caller may name
Receiver == derivePublicKey(EphSecret(1))
AmountsSOL == {1, 2}

\* what the collaborator may hold at the receiver's registry address: nothing,
\* the registry of recipient A or B, or a registry whose meta key is no point
RegistryAccounts ==
    {NoAccount,
     AccountData(Receiver, derivePublicKey(MetaSecret(1))),
     AccountData(Receiver, derivePublicKey(MetaSecret(2))),
     AccountData(Receiver, Repeat(2, KeyLen))}

\* the bytes ed.utils.randomPrivateKey() may draw for the ephemeral key
TransferDraws == {EphSecret(k) : k \in 0..NumEphSecrets}

\* [SystemProgram.transfer(...), the memo instruction]
TransferInstructions(sender, stealthPubkey, amountSOL, memo) ==
    << [programId |-> SYSTEM_PROGRAM_ID, from |-> sender, to |-> stealthPubkey,
        lamports |-> amountSOL * LAMPORTS_PER_SOL, data |-> <<>>],
       [programId |-> MEMO_PROGRAM_ID, from |-> sender, to |-> <<>>,
        lamports |-> 0, data |-> memo] >>

TransferIdle ==
    /\ trPc = "idle"
    /\ trAmount = NoAmount
    /\ trAccount = "pending"
    /\ trMetaPk = Null
    /\ trEphPk = Null
    /\ trStealthPk = Null
    /\ trMemo = <<>>
    /\ trInstructions = <<>>
    /\ trBlockhash = <<>>
    /\ trRequests = <<>>
    /\ trError = "none"
    /\ trPrev = <<>>


\* createStealthTransfer(sender, receiver, amountSOL) is called, the first
\* time or after an earlier call ended: getRegistry asks for the account
\* (trPrev keeps the outcome of the call that just returned for comparison)
TransferCall ==
    /\ trPc \in {"idle", "returned", "threw"}
    /\ trPc' = "awaitRegistry"
    /\ \E amountSOL \in AmountsSOL : trAmount' = amountSOL
    /\ trAccount' = "pending"
    /\ trMetaPk' = Null
    /\ trEphPk' = Null
    /\ trStealthPk' = Null
    /\ trMemo' = <<>>
    /\ trInstructions' = <<>>
    /\ trBlockhash' = <<>>
    /\ trRequests' = <<WithdrawRequest("getAccountInfo", Receiver)>>
    /\ trError' = "none"
    /\ trPrev' = IF trPc = "returned"
                 THEN << [metaPubkey |-> trMetaPk, ephemeralPk |-> trEphPk,
                          stealthPubkey |-> trStealthPk, memo |-> trMemo] >>
                 ELSE trPrev
    /\ UNCHANGED <<memoVars, cryptoVars, scanVars, withdrawVars, unlockVars>>

\* the call throws: nothing is returned
TransferThrow(error) ==
    /\ trPc' = "threw"
    /\ trError' = error
    /\ UNCHANGED <<trAmount, trEphPk, trStealthPk, trMemo, trInstructions,
                   trBlockhash, trRequests, trPrev>>

\* getAccountInfo resolves; an unregistered receiver is refused, otherwise the
\* stealth address is derived, the instructions are built and buildTransaction
\* asks for the latest blockhash
RegistryResolve ==
    /\ trPc = "awaitRegistry"
    /\ \E accountInfo \in RegistryAccounts, drawn \in TransferDraws :
        \E registry \in {getRegistry(Receiver, accountInfo)} :
            /\ trAccount' = IF accountInfo = NoAccount THEN "missing"
                            ELSE "present"
            /\ trMetaPk' = registry.metaPubkey
            /\ IF ~registry.exists
               THEN TransferThrow("unregistered")
               ELSE \E r \in {generateStealthAddress(registry.metaPubkey, drawn)} :
                    IF r.threw
                    THEN TransferThrow("derive")
                    ELSE /\ trEphPk' = r.ephemeralKeypair.publicKey
                         /\ trStealthPk' = r.stealthPubkey
                         /\ trMemo' = r.memo
                         /\ trInstructions' =
                                TransferInstructions(SenderKey, r.stealthPubkey,
                                                     trAmount, r.memo)
                         /\ trRequests' =
                                Append(trRequests,
                                       WithdrawRequest("getLatestBlockhash", <<>>))
                         /\ trPc' = "awaitBlockhash"
                         /\ UNCHANGED <<trAmount, trBlockhash, trError,
                                        trPrev>>
    /\ UNCHANGED <<memoVars, cryptoVars, scanVars, withdrawVars, unlockVars>>

\* getAccountInfo rejects: the error propagates out of createStealthTransfer
RegistryReject ==
    /\ trPc = "awaitRegistry"
    /\ TransferThrow("rpc")
    /\ UNCHANGED <<trAccount, trMetaPk>>
    /\ UNCHANGED <<memoVars, cryptoVars, scanVars, withdrawVars, unlockVars>>

\* getLatestBlockhash resolves: the transaction is built and returned with
\* the stealth address and the memo
TransferBuild ==
    /\ trPc = "awaitBlockhash"
    /\ \E blockhash \in Blockhashes : trBlockhash' = blockhash
    /\ trPc' = "returned"
    /\ UNCHANGED <<trAmount, trAccount, trMetaPk, trEphPk, trStealthPk,
                   trMemo, trInstructions, trRequests, trError, trPrev>>
    /\ UNCHANGED <<memoVars, cryptoVars, scanVars, withdrawVars, unlockVars>>

\* getLatestBlockhash rejects: the error propagates out of buildTransaction
TransferBuildReject ==
    /\ trPc = "awaitBlockhash"
    /\ TransferThrow("rpc")
    /\ UNCHANGED <<trAccount, trMetaPk>>
    /\ UNCHANGED <<memoVars, cryptoVars, scanVars, withdrawVars, unlockVars>>

TransferNext ==
    \/ TransferCall
    \/ RegistryResolve \/ RegistryReject
    \/ TransferBuild \/ TransferBuildReject

-----------------------------------------------------------------------------
\* src/src/index.ts: AdelosSDK.unlockPrivacy, driven against a wallet that
\* signs or refuses

\* new TextEncoder().encode(ADELOS_CONFIG.UNLOCK_MESSAGE): "Adelos Protocol:
\* Unlock Privacy Identity\n\nThis will derive your unique privacy key for
\* stealth addresses. This does not cost gas." in UTF-8
UNLOCK_MESSAGE ==
    << 65, 100, 101, 108, 111, 115, 32, 80, 114, 111, 116, 111, 99, 111, 108, 58,
       32, 85, 110, 108, 111, 99, 107, 32, 80, 114, 105, 118, 97, 99, 121, 32,
       73, 100, 101, 110, 116, 105, 116, 121, 10, 10, 84, 104, 105, 115, 32, 119,
       105, 108, 108, 32, 100, 101, 114, 105, 118, 101, 32, 121, 111, 117, 114, 32,
       117, 110, 105, 113, 117, 101, 32, 112, 114, 105, 118, 97, 99, 121, 32, 107,
       101, 121, 32, 102, 111, 114, 32, 115, 116, 101, 97, 108, 116, 104, 32, 97,
       100, 100, 114, 101, 115, 115, 101, 115, 46, 32, 84, 104, 105, 115, 32, 100,
       111, 101, 115, 32, 110, 111, 116, 32, 99, 111, 115, 116, 32, 103, 97, 115,
       46 >>

\* number of different signatures the wallet may produce
NumSignatures == 10

\* the signatures signMessage may resolve with: 64 bytes, or no byte at all
WalletSignature(k) ==
    IF k = 0 THEN <<>>
    ELSE [j \in 1..(2 * KeyLen) |-> (29 * k * j + 3 * k) % ByteMod]
WalletSignatures == {WalletSignature(k) : k \in 0..NumSignatures}

\* a key that chains in the key of the invocation before
UnlockKey_Chained(sig, previous) ==
    sha256(sig \o (IF previous = <<>> THEN <<>> ELSE previous[1].key))

\* return sha256(signature): nothing of an earlier invocation enters
UnlockKey(sig, previous) == sha256(sig)

UnlockIdle ==
    /\ ulPc = "idle"
    /\ ulCalls = <<>>
    /\ ulSignature = Null
    /\ ulKey = Null
    /\ ulPrev = <<>>

SdkIdle == WithdrawIdle /\ TransferIdle /\ UnlockIdle

\* unlockPrivacy(signMessage) is called, the first time or after an earlier
\* invocation ended: it encodes the message and awaits signMessage
\* (ulPrev keeps the outcome of the invocation that just returned)
UnlockCall ==
    /\ ulPc \in {"idle", "returned", "threw"}
    /\ ulPc' = "awaitSign"
    /\ ulCalls' = <<UNLOCK_MESSAGE>>
    /\ ulSignature' = Null
    /\ ulKey' = Null
    /\ ulPrev' = IF ulPc = "returned"
                 THEN <<[signature |-> ulSignature, key |-> ulKey]>>
                 ELSE ulPrev
    /\ UNCHANGED <<memoVars, cryptoVars, scanVars, withdrawVars, transferVars>>

\* signMessage resolves with a signature: its hash is returned
UnlockResolve ==
    /\ ulPc = "awaitSign"
    /\ \E sig \in WalletSignatures :
           /\ ulSignature' = sig
           /\ ulKey' = UnlockKey(sig, ulPrev)
    /\ ulPc' = "returned"
    /\ UNCHANGED <<ulCalls, ulPrev>>
    /\ UNCHANGED <<memoVars, cryptoVars, scanVars, withdrawVars, transferVars>>

\* signMessage rejects (the user refuses): the error leaves unlockPrivacy
UnlockReject ==
    /\ ulPc = "awaitSign"
    /\ ulPc' = "threw"
    /\ UNCHANGED <<ulCalls, ulSignature, ulKey, ulPrev>>
    /\ UNCHANGED <<memoVars, cryptoVars, scanVars, withdrawVars, transferVars>>

UnlockNext == UnlockCall \/ UnlockResolve \/ UnlockReject

-----------------------------------------------------------------------------
\* The memo codec driven over a bounded set of keys and memo strings

\* number of keys handed to generateStealthMemo; together they hold every
\* byte value when NumMemoKeys >= 8
NumMemoKeys == 8

MemoKey(k) == [j \in 1..KeyLen |-> (k + (ByteMod \div KeyLen) * (j - 1)) % ByteMod]
MemoKeys == {MemoKey(k) : k \in 0..(NumMemoKeys - 1)}

\* prefixes and payloads of memo strings read from the ledger
MemoPrefixes ==
    { MEMO_PREFIX,
      <<"A", "D", "L", "S", "v", "2", ":">>,
      <<"a", "d", "l", "s", "v", "1", ":">>,
      <<"A", "D", "L", "S", "v", "1">>,
      <<" ">> \o MEMO_PREFIX,
      <<>> }

MemoPayloads ==
    { Repeat("0", HexLen),
      <<"1", "f">> \o Repeat("a", HexLen - 2),
      <<"1", "F">> \o Repeat("A", HexLen - 2),
      Repeat("0", HexLen - 1),
      Repeat("0", HexLen + 1),
      Repeat("0", HexLen - 2),
      <<>>,
      <<"g">> \o Repeat("0", HexLen - 1),
      Repeat("0", HexLen - 1) \o <<"g">>,
      <<"1", "g">> \o Repeat("0", HexLen - 2),
      <<"0", "x">> \o Repeat("1", HexLen - 2),
      <<"0", "x">> \o Repeat("1", HexLen),
      <<"a", "a", "0", "x">> \o Repeat("1", HexLen - 4),
      <<" ", "1">> \o Repeat("0", HexLen - 2),
      <<"-", "1">> \o Repeat("0", HexLen - 2) }

LedgerMemos == {pre \o pay : pre \in MemoPrefixes, pay \in MemoPayloads}

MemoIdle ==
    /\ memoIn = <<>>
    /\ memoKey = <<>>
    /\ memoOut = Null
    /\ memoPc = "idle"

MemoInit == MemoIdle /\ CryptoIdle /\ ScanIdle /\ SdkIdle

\* the sender encodes an ephemeral public key
MemoGenerate ==
    /\ memoPc \in {"idle", "parsed"}
    /\ \E pk \in MemoKeys :
         /\ memoKey' = pk
         /\ memoIn' = generateStealthMemo(pk)
    /\ memoOut' = Null
    /\ memoPc' = "generated"
    /\ UNCHANGED <<cryptoVars, scanVars, sdkVars>>

\* a memo string of unknown origin is read from a transaction
MemoReceive ==
    /\ memoPc \in {"idle", "parsed"}
    /\ \E m \in LedgerMemos : memoIn' = m
    /\ memoKey' = <<>>
    /\ memoOut' = Null
    /\ memoPc' = "received"
    /\ UNCHANGED <<cryptoVars, scanVars, sdkVars>>

MemoParse ==
    /\ memoPc \in {"generated", "received"}
    /\ memoOut' = parseStealthMemo(memoIn)
    /\ memoPc' = "parsed"
    /\ UNCHANGED <<memoIn, memoKey>>
    /\ UNCHANGED <<cryptoVars, scanVars, sdkVars>>

MemoNext == MemoGenerate \/ MemoReceive \/ MemoParse

vars == <<memoVars, cryptoVars, scanVars, sdkVars>>

SpecMemo == MemoInit /\ [][MemoNext]_vars

CryptoInit == CryptoFresh /\ MemoIdle /\ ScanIdle /\ SdkIdle

SpecCrypto == CryptoInit /\ [][CryptoNext]_vars

ScalarInit ==
    ScalarFresh /\ ProtocolIdle /\ DeriveIdle /\ MemoIdle /\ ScanIdle /\ SdkIdle

SpecScalar == ScalarInit /\ [][ScalarNext]_vars

DeriveInit ==
    DeriveFresh /\ ProtocolIdle /\ ScalarIdle /\ MemoIdle /\ ScanIdle /\ SdkIdle

SpecDerive == DeriveInit /\ [][DeriveNext]_vars

ScanInit == ScanFresh /\ MemoIdle /\ CryptoIdle /\ SdkIdle

SpecScan == ScanInit /\ [][ScanNext]_vars

InvocationsInit ==
    InvocationsFresh /\ OneScanIdle /\ MemoIdle /\ CryptoIdle /\ SdkIdle

SpecInvocations == InvocationsInit /\ [][InvocationsNext]_vars

WithdrawInit ==
    /\ WithdrawFresh /\ TransferIdle /\ UnlockIdle
    /\ MemoIdle /\ CryptoIdle /\ ScanIdle

SpecWithdraw == WithdrawInit /\ [][WithdrawNext]_vars

TransferInit ==
    /\ TransferIdle /\ WithdrawIdle /\ UnlockIdle
    /\ MemoIdle /\ CryptoIdle /\ ScanIdle

SpecTransfer == TransferInit /\ [][TransferNext]_vars

UnlockInit ==
    /\ UnlockIdle /\ WithdrawIdle /\ TransferIdle
    /\ MemoIdle /\ CryptoIdle /\ ScanIdle

SpecUnlock == UnlockInit /\ [][UnlockNext]_vars

-----------------------------------------------------------------------------
\* Claims about the stealth protocol and the signer (checked under SpecCrypto)

\* the point s.G of the group, for every scalar s (0.G is the identity)
ScalarTimesBase(s) == toRawBytes((BASE * s) % L)

\* both key pairs of the state are key pairs: the public key is the one
\* derivePublicKey gives for the secret
KeyPairsValid ==
    /\ metaPk # Throw
    /\ metaPk = derivePublicKey(metaSk)
    /\ ephSk # Null
    /\ ephPk # Throw
    /\ ephPk = derivePublicKey(ephSk)

\* C1: Round trip.  For every meta key pair and every ephemeral key pair, the
\* scalar encoded by the stealth secret key the recipient recovered, multiplied
\* by the base point, is the stealth public key the sender derived.
C1_RoundTrip ==
    (KeyPairsValid /\ stealthSk # Null) =>
        /\ stealthSk # Throw
        /\ stealthPk # Throw
        /\ Len(stealthSk) = KeyLen
        /\ ScalarTimesBase(toScalar(stealthSk)) = stealthPk

\* the recipient recovered a key from a meta secret whose bytes exceed L
C1_Witness ==
    /\ KeyPairsValid
    /\ stealthSk # Null
    /\ stealthSk # Throw
    /\ LEValueCapped(metaSk, L) = L
    /\ ScalarTimesBase(toScalar(stealthSk)) = stealthPk

\* C2: Shared-secret agreement.  For every meta key pair and every ephemeral
\* key pair, the shared secret the sender computed from (ephSk, metaPk) is the
\* one the recipient computed from (metaSk, ephPk).
C2_SharedSecretAgreement ==
    (KeyPairsValid /\ recipSecret # Null) =>
        /\ senderSecret # Throw
        /\ Len(senderSecret) = KeyLen
        /\ recipSecret = senderSecret

\* both sides computed the shared secret
C2_Witness ==
    /\ KeyPairsValid
    /\ senderSecret # Null
    /\ senderSecret # Throw
    /\ recipSecret = senderSecret

\* the signature of the state is R || S and verifies for the signed message
\* under A = scalar.G
SignatureValid ==
    /\ signature # Throw
    /\ Len(signature) = 2 * KeyLen
    /\ SliceTo(signature, KeyLen) = ScalarTimesBase(toScalar(sigNonce))
    /\ verify(signature, sigMsg, ScalarTimesBase(toScalar(sigKey)))

\* C3: Signature validity.  For every 32-byte scalar, every message and every
\* nonce the signer may draw, signWithScalar returns exactly 64 bytes R || S
\* that pass the standard verification against A = scalar.G.
C3_SignatureValidEveryScalar ==
    signature # Null => SignatureValid

\* what the signer does: it throws when the scalar or the drawn nonce reduces
\* to 0 modulo L, and returns a verifying signature otherwise
SignatureValidUnlessZero ==
    signature # Null =>
        IF toScalar(sigKey) # 0 /\ toScalar(sigNonce) # 0
        THEN SignatureValid
        ELSE signature = Throw

\* C4: Negative verification.  A signature made by signWithScalar for message M
\* under scalar s fails the standard verification against (M', s.G) for every
\* message M' different from M.
C4_NegativeVerification ==
    (signature # Null /\ signature # Throw) =>
        \A other \in Messages \ {sigMsg} :
            ~verify(signature, other, ScalarTimesBase(toScalar(sigKey)))

\* a signature that verifies for its message was tried on the other messages
C4_Witness ==
    /\ signature # Null
    /\ signature # Throw
    /\ verify(signature, sigMsg, ScalarTimesBase(toScalar(sigKey)))
    /\ Messages \ {sigMsg} # {}

-----------------------------------------------------------------------------
\* Claims about the memo codec (checked under SpecMemo)


\* C7: Memo round trip.  A memo made by generateStealthMemo from a 32-byte key
\* is the fixed prefix followed by exactly 64 lowercase hex characters, and
\* parseStealthMemo of it gives the key back.
C7_MemoRoundTrip ==
    memoKey # <<>> =>
        /\ StartsWith(memoIn, MEMO_PREFIX)
        /\ Len(memoIn) = Len(MEMO_PREFIX) + HexLen
        /\ IsLowerHexString(SliceFrom(memoIn, Len(MEMO_PREFIX)))
        /\ (memoPc = "parsed" => memoOut = memoKey)

\* a generated memo of a key with bytes below 16 and bytes above 159 was parsed
C7_Witness ==
    /\ memoPc = "parsed"
    /\ memoKey # <<>>
    /\ \E i \in 1..KeyLen : memoKey[i] < Radix
    /\ \E i \in 1..KeyLen : memoKey[i] >= 160
    /\ memoOut = memoKey

\* a memo the specification calls well formed: the exact prefix, then exactly
\* 64 hexadecimal characters
WellFormedMemo(m) ==
    /\ StartsWith(m, MEMO_PREFIX)
    /\ Len(m) = Len(MEMO_PREFIX) + HexLen
    /\ IsHexString(SliceFrom(m, Len(MEMO_PREFIX)))

\* C8: Memo rejection.  parseStealthMemo returns null for every string that
\* lacks the exact prefix and for every string whose payload is not exactly 64
\* hexadecimal characters; it never returns a partially decoded key.
C8_MemoRejection ==
    (memoPc = "parsed" /\ ~WellFormedMemo(memoIn)) => memoOut = Null

-----------------------------------------------------------------------------
\* Claims about the scanner (under SpecScan)

\* the scan has ended, by returning or by throwing
ScanEnded == scanPc \in {"returned", "threw"}

\* the collaborator answered the request for the signature at position i with
\* a transaction
Found(i) == fetched[i] \in 1..Len(TxCatalogue)

\* the key the memo of tx decodes to, Null when it decodes to none
MemoEphemeralKey(tx) ==
    LET memo == extractMemo(tx)
    IN  IF StartsWith(memo, MEMO_PREFIX) THEN parseStealthMemo(memo) ELSE Null

\* the stealth public key derived from the scanning recipient's keys and the
\* ephemeral key e, Throw when the derivation throws
DerivedStealthKey(e) ==
    LET secret == computeSharedSecretAsRecipient(scanSk, e)
    IN  IF secret = Throw THEN Throw ELSE deriveStealthPubkey(scanPk, secret)

\* the positions of the account keys of tx that are the derived stealth key
MatchedAccounts(tx) ==
    LET e == MemoEphemeralKey(tx)
    IN  IF e = Null \/ DerivedStealthKey(e) = Throw THEN {}
        ELSE {a \in 1..Len(tx.accountKeys) : tx.accountKeys[a] = DerivedStealthKey(e)}

\* the transaction fetched at position i is a stealth transfer to the scanning
\* recipient
IsTransferToScanner(i) == Found(i) /\ MatchedAccounts(TxCatalogue[fetched[i]]) # {}

\* post-minus-pre balance at the matched account of the transaction at i
MatchedDelta(i) ==
    LET tx == TxCatalogue[fetched[i]]
        a == FirstIndex(MatchedAccounts(tx))
        pre == IF tx.hasMeta THEN BalanceAt(tx.preBalances, a) ELSE 0
        post == IF tx.hasMeta THEN BalanceAt(tx.postBalances, a) ELSE 0
    IN  post - pre

\* the entries of list that carry the signature at position i
EntriesFor(list, i) == {j \in 1..Len(list) : list[j].signature = sigs[i]}

\* C5: Scanner correctness.  A scan that has ended returned an entry for a
\* fetched signature if and only if its transaction was found, its memo decodes
\* to an ephemeral key and the stealth key derived from it is one of the
\* transaction's account keys; there is one entry for it and its amount is the
\* positive part of the post-minus-pre balance at the matched account.
C5_ScannerCorrectness ==
    ScanEnded =>
        \A i \in 1..Len(fetched) :
            /\ (EntriesFor(returned, i) # {}) <=> IsTransferToScanner(i)
            /\ IsTransferToScanner(i) =>
                   /\ Cardinality(EntriesFor(returned, i)) = 1
                   /\ \A j \in EntriesFor(returned, i) :
                          returned[j].amount = Max(MatchedDelta(i), 0)

\* C6: Balance clamp.  Every entry of the results of a scan has an amount of
\* at least 0, and the amount is exactly 0 when the matched account's balance
\* after the transaction is lower than before it.
C6_BalanceClamp ==
    \A i \in 1..Len(fetched) :
        \A j \in EntriesFor(results, i) :
            /\ results[j].amount >= 0
            /\ (IsTransferToScanner(i) /\ MatchedDelta(i) < 0) => results[j].amount = 0

\* a scan returned an entry for a transaction in which the matched account's
\* balance went down, and an entry for one in which it went up
C6_Witness ==
    /\ scanPc = "returned"
    /\ \E i \in 1..Len(fetched) :
           /\ IsTransferToScanner(i) /\ MatchedDelta(i) < 0
           /\ \E j \in EntriesFor(returned, i) : returned[j].amount = 0
    /\ \E i \in 1..Len(fetched) :
           /\ IsTransferToScanner(i) /\ MatchedDelta(i) > 0
           /\ \E j \in EntriesFor(returned, i) : returned[j].amount = MatchedDelta(i)

\* the request for the signature at position i came back with nothing or with
\* a transport error
FetchFailed(i) == fetched[i] \in {NullResp, ErrorResp}

\* C9: A failed fetch of a single transaction is non-fatal.  After the fetch of
\* a signature came back with nothing or with a transport error, the scan has
\* not thrown, it has no entry for that signature, and it either has requested
\* the next signature's transaction or, the list being exhausted, has returned
\* its results.
C9_FailedFetchNonFatal ==
    \A i \in 1..Len(fetched) :
        FetchFailed(i) =>
            /\ scanPc # "threw"
            /\ EntriesFor(results, i) = {}
            /\ i = Len(fetched) =>
                   \/ /\ scanPc = "awaitTx"
                      /\ cursor = i + 1
                      /\ requests[Len(requests)] = TransactionRequest(sigs[i + 1])
                   \/ /\ scanPc = "returned"
                      /\ i = Len(sigs)
                      /\ returned = results

\* C10: A failure of the signature-list fetch is fatal.  Once that request has
\* failed the scan has thrown, it has returned no list, and the signature-list
\* request is the only request it ever issued.
C10_SignatureListFailureFatal ==
    listed = "error" =>
        /\ scanPc = "threw"
        /\ returned = <<>>
        /\ results = <<>>
        /\ fetched = <<>>
        /\ requests = <<SignaturesRequest(limit)>>

\* the signature-list request of a scan of the whole window failed
C10_Witness ==
    /\ listed = "error"
    /\ limit = MaxSigs
    /\ scanPc = "threw"

\* the memo of tx is absent, lacks the prefix, has a payload that is not 64
\* characters long, or has a 64-character payload that is the encoding of no
\* point
MalformedMemo(tx) ==
    LET memo == extractMemo(tx)
        payload == SliceFrom(memo, Len(MEMO_PREFIX))
    IN  \/ ~StartsWith(memo, MEMO_PREFIX)
        \/ Len(payload) # HexLen
        \/ fromHex(payload) = NoPoint

\* C11: Malformed memo input never aborts a scan.  After a transaction whose
\* memo is absent, has the wrong prefix, a payload of the wrong length or a
\* 64-character payload that decodes to no usable ephemeral key was fetched, the
\* scan has not thrown, it has no entry for that signature, and it either has
\* requested the next signature's transaction or has returned its results.
C11_MalformedMemoSkipped ==
    \A i \in 1..Len(fetched) :
        (Found(i) /\ MalformedMemo(TxCatalogue[fetched[i]])) =>
            /\ scanPc # "threw"
            /\ EntriesFor(results, i) = {}
            /\ i = Len(fetched) =>
                   \/ /\ scanPc = "awaitTx"
                      /\ cursor = i + 1
                      /\ requests[Len(requests)] = TransactionRequest(sigs[i + 1])
                   \/ /\ scanPc = "returned"
                      /\ i = Len(sigs)
                      /\ returned = results

\* the position in the fetched signature list of the signature entry e carries,
\* 0 when it carries none of them
PositionOf(e) == FirstIndex({i \in 1..Len(sigs) : sigs[i] = e.signature})

\* list is a subsequence of the signatures fetched so far, in fetch order: each
\* entry carries a fetched signature, and the positions strictly increase
InFetchOrder(list) ==
    /\ \A j \in 1..Len(list) : PositionOf(list[j]) \in 1..Len(fetched)
    /\ \A j \in 1..(Len(list) - 1) : PositionOf(list[j]) < PositionOf(list[j + 1])

\* C12: Result order.  The list a scan accumulates and returns is a
\* subsequence of the fetched signature list in fetch order: each fetched
\* signature contributes at most one entry, and the entry carries that signature.
C12_ResultOrder ==
    /\ InFetchOrder(results)
    /\ scanPc = "returned" => (returned = results /\ InFetchOrder(returned))
    /\ \A i \in 1..Len(fetched) : Cardinality(EntriesFor(results, i)) <= 1

\* a scan returned entries for two signatures
C12_Witness ==
    /\ scanPc = "returned"
    /\ Len(returned) >= 2
    /\ PositionOf(returned[1]) < PositionOf(returned[2])

\* the requests of the scan the collaborator has answered so far
Answered == (IF listed = "pending" THEN 0 ELSE 1) + Len(fetched)

\* C18: Sequential scan.  The requests of a scan are the signature-list
\* request followed by one transaction request per signature, in list order;
\* at most one of them is unanswered at any time; the request for a signature
\* is issued when every earlier signature has been answered and processed
\* (the results hold entries of earlier signatures only); a scan that returned
\* has asked once for every signature of the list, and a scan whose last
\* signature has been answered has ended.
C18_SequentialScan ==
    /\ Len(requests) - Answered \in {0, 1}
    /\ (Len(requests) - Answered = 1) <=> (scanPc \in {"awaitSigs", "awaitTx"})
    /\ scanPc # "idle" =>
           /\ Len(requests) - 1 <= Len(sigs)
           /\ requests = <<SignaturesRequest(limit)>>
                             \o [i \in 1..(Len(requests) - 1) |->
                                     TransactionRequest(sigs[i])]
    /\ scanPc = "awaitTx" =>
           /\ cursor = Len(fetched) + 1
           /\ Len(requests) = cursor + 1
           /\ \A j \in 1..Len(results) : PositionOf(results[j]) < cursor
    /\ scanPc = "returned" =>
           /\ Len(fetched) = Len(sigs)
           /\ Len(requests) = Len(sigs) + 1
    /\ (listed = "list" /\ Len(fetched) = Len(sigs)) => ScanEnded

\* a scan of two or more signatures ran to completion and found a transfer
C18_Witness ==
    /\ scanPc = "returned"
    /\ Len(sigs) >= 2
    /\ Len(requests) = Len(sigs) + 1
    /\ returned # <<>>

-----------------------------------------------------------------------------
\* Claims about several scans on one indexer (under SpecInvocations)

\* what a scan of list by the holder of (sk, pk) returns when it runs alone
\* against the ledger, from position i on with the results acc
RECURSIVE SoloScanFrom(_, _, _, _, _)
SoloScanFrom(list, i, sk, pk, acc) ==
    IF i > Len(list) THEN acc
    ELSE IF ledger[list[i]] = NullResp THEN SoloScanFrom(list, i + 1, sk, pk, acc)
    ELSE SoloScanFrom(list, i + 1, sk, pk,
             acc \o ProcessTransaction(list[i], TxCatalogue[ledger[list[i]]],
                                       sk, pk).entry)

SoloScan(inv) ==
    SoloScanFrom(SliceTo(Window, Min(inv.limit, Len(Window))), 1, inv.sk, inv.pk, <<>>)

\* C19: Scans keep no state between or across each other.  Every invocation
\* that returned, whatever the other invocation did before it or between its
\* steps, returned what a scan with its arguments returns alone against the
\* same collaborator answers; two returned invocations with the same
\* arguments returned the same list, so a transaction one reported is reported
\* by the other as well.
C19_ScansIndependent ==
    /\ \A n \in Invocations :
           invocations[n].pc = "returned" =>
               invocations[n].returned = SoloScan(invocations[n])
    /\ \A n, o \in Invocations :
           (/\ invocations[n].pc = "returned"
            /\ invocations[o].pc = "returned"
            /\ invocations[n].sk = invocations[o].sk
            /\ invocations[n].pk = invocations[o].pk
            /\ invocations[n].limit = invocations[o].limit)
               => invocations[n].returned = invocations[o].returned

\* both invocations scanned the same window for the same recipient and both
\* reported a transfer
C19_Witness ==
    /\ \A n \in Invocations :
           /\ invocations[n].pc = "returned"
           /\ invocations[n].returned # <<>>
    /\ invocations["earlier"].sk = invocations["later"].sk
    /\ invocations["earlier"].limit = invocations["later"].limit

-----------------------------------------------------------------------------
\* Claims about toScalar (under SpecScalar)

\* the little-endian value of the bytes from position i on, modulo m
RECURSIVE LEModRange(_, _, _, _)
LEModRange(bytes, lo, hi, m) ==
    IF lo > hi THEN 0
    ELSE IF lo = hi THEN bytes[lo] % m
    ELSE Bind((lo + hi) \div 2, LAMBDA mid :
             (LEModRange(bytes, lo, mid, m)
                + PowMod(ByteMod, mid - lo + 1, m) * LEModRange(bytes, mid + 1, hi, m))
                 % m)

LEMod(bytes, i, m) == LEModRange(bytes, i, Len(bytes), m)

\* the bytes toScalar reads: the first 32 of a 64-byte buffer, else all
ScalarBytesRead(bytes) ==
    IF Len(bytes) = 2 * KeyLen THEN SubSeq(bytes, 1, KeyLen) ELSE bytes

\* toScalar returned the little-endian value of the bytes it reads, reduced
\* modulo L
ScalarReduced ==
    /\ scalarOut \in 0..(L - 1)
    /\ scalarOut = LEMod(ScalarBytesRead(scalarIn), 1, L)

\* C20: toScalar accepts every byte buffer and returns an integer in [0, L):
\* the little-endian value of the buffer (of its first 32 bytes when it has
\* 64), reduced modulo L; no buffer, the empty one included, raises an error.
C20_ToScalarTotal ==
    scalarPc = "done" => ScalarReduced

\* what the code does: every buffer but the empty one is read and reduced;
\* for the empty buffer toScalar throws
ToScalarTotalUnlessEmpty ==
    scalarPc = "done" =>
        IF scalarIn = <<>> THEN scalarOut = NoScalar ELSE ScalarReduced

-----------------------------------------------------------------------------
\* Claims about createWithdrawTransaction (under SpecWithdraw)

\* the requests of the withdrawal that broadcast a transaction
Broadcasts == {i \in 1..Len(wdRequests) : wdRequests[i].op = "sendRawTransaction"}

\* C13: Full-balance withdrawal guard.  In a withdrawal called without an
\* amount, once the balance is known: a balance of at most 5000 lamports has
\* made the call fail with the insufficient-funds error, no signature was
\* computed and nothing was broadcast; a greater balance has set the
\* transferred amount to balance - 5000, which is positive, and that amount is
\* the one in every transaction broadcast.
C13_WithdrawGuard ==
    (wdAmount = NoAmount /\ wdBalance # NoAmount) =>
        IF wdBalance <= FEE_BUFFER
        THEN /\ wdPc = "threw"
             /\ wdError = "insufficient"
             /\ wdSignature = Null
             /\ Broadcasts = {}
        ELSE /\ wdFinal = wdBalance - FEE_BUFFER
             /\ wdFinal > 0
             /\ \A i \in Broadcasts :
                    \E blockhash \in Blockhashes :
                        StartsWith(wdRequests[i].arg,
                                   WithdrawMessage(wdAddress, Destination,
                                                   wdBalance - FEE_BUFFER, blockhash))

\* a withdrawal of the full balance was refused at a balance equal to the fee
\* buffer
C13_Witness ==
    /\ wdAmount = NoAmount
    /\ wdBalance = FEE_BUFFER
    /\ wdPc = "threw"
    /\ wdError = "insufficient"

\* C14: a createStealthTransfer whose receiver has no registry account has
\* thrown, and it derived no stealth address, built no instruction, asked
\* for no blockhash and built no transaction: the account lookup is its only
\* request.
C14_UnregisteredRefused ==
    trAccount = "missing" =>
        /\ trPc = "threw"
        /\ trError # "none"
        /\ trEphPk = Null
        /\ trStealthPk = Null
        /\ trMemo = <<>>
        /\ trInstructions = <<>>
        /\ trBlockhash = <<>>
        /\ trRequests = <<WithdrawRequest("getAccountInfo", Receiver)>>

\* a call for an unregistered receiver has ended, after an earlier call for a
\* registered one returned a transfer
C14_Witness ==
    /\ trAccount = "missing"
    /\ trPc = "threw"
    /\ trError = "unregistered"
    /\ trPrev # <<>>

\* C15: Scan-to-spend consistency.  For every transaction the scan returned,
\* prepareWithdraw with the scanning key pair returns a 32-byte key whose
\* scalar times the base point is the transaction's stealth address, and a
\* signature signWithScalar made with that key verifies under that address.
C15_ScanToSpend ==
    \A i \in 1..Len(prepared) :
        LET w == prepared[i].withdrawable
            made == prepared[i].signature
        IN  /\ w.stealthTx \in {returned[j] : j \in 1..Len(returned)}
            /\ ~w.threw
            /\ Len(w.stealthSecretKey) = KeyLen
            /\ ScalarTimesBase(toScalar(w.stealthSecretKey)) = w.stealthTx.stealthAddress
            /\ made # Throw =>
                   verify(made, prepared[i].message, w.stealthTx.stealthAddress)

\* a returned transaction was prepared and a signature was made with its key
C15_Witness ==
    /\ scanPc = "returned"
    /\ scanPk = derivePublicKey(scanSk)
    /\ prepared # <<>>
    /\ prepared[1].signature \notin {Null, Throw}
    /\ prepared[1].message # <<>>

-----------------------------------------------------------------------------
\* Claims about createStealthTransfer and generateStealthAddress (under
\* SpecTransfer)

\* two calls have returned, both for the recipient meta key the registry holds
TwoTransfersToOneRecipient ==
    /\ trPc = "returned"
    /\ trPrev # <<>>
    /\ trPrev[1].metaPubkey = trMetaPk

-----------------------------------------------------------------------------
\* Claims about unlockPrivacy (under SpecUnlock)

\* C17: unlockPrivacy is deterministic and stateless.  An invocation that
\* returned called signMessage exactly once, on the fixed unlock message, and
\* returned a 32-byte key that is the hash of the signature it received; an
\* invocation that received the signature an earlier one received returned
\* the key the earlier one returned.
C17_UnlockDeterministic ==
    ulPc = "returned" =>
        /\ ulCalls = <<UNLOCK_MESSAGE>>
        /\ Len(ulKey) = KeyLen
        /\ ulKey = sha256(ulSignature)
        /\ \A i \in 1..Len(ulPrev) :
               ulPrev[i].signature = ulSignature => ulPrev[i].key = ulKey

\* two successive invocations received the same 64-byte signature
C17_Witness ==
    /\ ulPc = "returned"
    /\ ulPrev # <<>>
    /\ ulPrev[1].signature = ulSignature
    /\ Len(ulSignature) = 2 * KeyLen

-----------------------------------------------------------------------------
\* Claims about the recovered key's encoding (under SpecCrypto)

\* the domain scalar of the recipient's shared secret
DomainScalar == toScalar(sha256(recipSecret \o STEALTH_DOMAIN))

\* C21: recoverStealthSecretKey returns exactly 32 bytes, the little-endian
\* zero-padded encoding of (toScalar(metaSk) + domainScalar) mod L, and
\* toScalar applied to them returns that value, also when the sum wraps past L.
C21_RecoveredKeyEncoding ==
    (recipSecret \notin {Null, Throw}) =>
        /\ stealthSk # Throw
        /\ Len(stealthSk) = KeyLen
        /\ \A j \in 1..KeyLen : stealthSk[j] \in 0..(ByteMod - 1)
        /\ LEValueCapped(stealthSk, L) = (toScalar(metaSk) + DomainScalar) % L
        /\ toScalar(stealthSk) = (toScalar(metaSk) + DomainScalar) % L

\* a key was recovered whose scalar sum wrapped past L
C21_Witness ==
    /\ recipSecret \notin {Null, Throw}
    /\ stealthSk \notin {Null, Throw}
    /\ toScalar(metaSk) + DomainScalar >= L
    /\ stealthSk[KeyLen] = 0

-----------------------------------------------------------------------------
\* Claims about the challenge of signWithScalar (under SpecCrypto)

\* a signature was made
SignatureMade == signature \notin {Null, Throw}

\* the digest hash(R || A || message) of the signature of the state
SignedDigest ==
    sha512(SliceTo(signature, KeyLen) \o ScalarTimesBase(toScalar(sigKey)) \o sigMsg)

\* the response S the signature carries
SignedResponse == LEValueCapped(SliceFrom(signature, KeyLen), L)

\* the response for challenge k: (r + k * s) mod L
ResponseFor(k) == (toScalar(sigNonce) + k * toScalar(sigKey)) % L

\* C22 as stated: the challenge of a signature is toScalar applied to the
\* digest of R || A || message, the conversion the stealth derivation uses.
C22_ChallengeByToScalar ==
    SignatureMade => SignedResponse = ResponseFor(toScalar(SignedDigest))

\* C22 as the code has it: the challenge of a signature is the whole 64-byte
\* digest of R || A || message read as a little-endian integer and reduced
\* modulo L.
C22_ChallengeFromWholeDigest ==
    SignatureMade => SignedResponse = ResponseFor(LEMod(SignedDigest, 1, L))

\* a signature was made whose digest reads differently as a whole and through
\* toScalar
C22_Witness ==
    /\ SignatureMade
    /\ Len(SignedDigest) = 2 * KeyLen
    /\ toScalar(SignedDigest) # LEMod(SignedDigest, 1, L)

-----------------------------------------------------------------------------
\* Claims about the memo instruction the scanner reads (under SpecScan)

\* the memo text decodes to an ephemeral key from which the scanning
\* recipient's keys derive one of the account keys of tx
MemoMatches(text, tx) ==
    /\ StartsWith(text, MEMO_PREFIX)
    /\ parseStealthMemo(text) # Null
    /\ DerivedStealthKey(parseStealthMemo(text)) # Throw
    /\ \E a \in 1..Len(tx.accountKeys) :
           tx.accountKeys[a] = DerivedStealthKey(parseStealthMemo(text))

\* the memo-program instructions of tx
MemoInstructions(tx) ==
    {ix \in 1..Len(tx.instructions) : tx.instructions[ix].programId = MEMO_PROGRAM_ID}

\* C23: Any memo instruction.  A fetched transaction one of whose memo-program
\* instructions carries a memo that decodes to an ephemeral key matching the
\* scanning recipient has an entry in the results, whatever the position of
\* that instruction among the memo-program instructions.
C23_AnyMemoInstruction ==
    \A i \in 1..Len(fetched) :
        (/\ Found(i)
         /\ \E ix \in MemoInstructions(TxCatalogue[fetched[i]]) :
                MemoMatches(TxCatalogue[fetched[i]].instructions[ix].parsed,
                            TxCatalogue[fetched[i]]))
            => EntriesFor(results, i) # {}

\* what the code does: the first memo-program instruction alone decides
FirstMemoInstructionDecides ==
    \A i \in 1..Len(fetched) :
        Found(i) =>
            ((EntriesFor(results, i) # {}) <=>
                 (/\ MemoInstructions(TxCatalogue[fetched[i]]) # {}
                  /\ MemoMatches(extractMemo(TxCatalogue[fetched[i]]),
                                 TxCatalogue[fetched[i]])))

-----------------------------------------------------------------------------
\* Claims about the derivation and recovery functions (under SpecDerive)

\* C24: computeSharedSecret, computeSharedSecretAsRecipient,
\* deriveStealthPubkey and recoverStealthSecretKey return a value for every
\* input made of 32-byte buffers, a public key that decodes to no point and a
\* secret that reduces to the zero scalar included: none of them throws.
C24_DerivationNeverThrows ==
    deriveOp # "" => (deriveOut # Throw /\ Len(deriveOut) = KeyLen)

\* what the code does: recoverStealthSecretKey always returns 32 bytes; the
\* other three throw exactly when the public key decodes to no point or, for
\* the two shared-secret functions, the secret reduces to the zero scalar
DerivationThrowsOnBadInput ==
    deriveOp # "" =>
        ((deriveOut = Throw) <=>
             \/ /\ deriveOp # "recoverStealthSecretKey"
                /\ fromHex(bytesToHex(derivePoint)) = NoPoint
             \/ /\ deriveOp \in {"computeSharedSecret",
                                 "computeSharedSecretAsRecipient"}
                /\ toScalar(deriveSecret) = 0)

-----------------------------------------------------------------------------
\* Claims about the order of the steps of createWithdrawTransaction (under
\* SpecWithdraw)

\* the requests of a withdrawal that runs to its end, in order
WithdrawSteps ==
    (IF wdAmount = NoAmount THEN <<"getBalance">> ELSE <<>>)
        \o <<"getLatestBlockhash", "sendRawTransaction", "confirmTransaction">>

\* the request the withdrawal is waiting for, "" when it waits for none
AwaitedStep ==
    CASE wdPc = "awaitBalance" -> "getBalance"
      [] wdPc = "awaitBlockhash" -> "getLatestBlockhash"
      [] wdPc = "awaitSend" -> "sendRawTransaction"
      [] wdPc = "awaitConfirm" -> "confirmTransaction"
      [] OTHER -> ""

\* the transaction handed to request i is a transfer of finalAmount from the
\* stealth address with the signature signWithScalar made over its message
SignedBroadcast(i) ==
    /\ wdSignature \notin {Null, Throw}
    /\ \E blockhash \in Blockhashes :
        \E message \in {WithdrawMessage(wdAddress, Destination, wdFinal, blockhash)} :
           /\ wdRequests[i].arg = message \o wdSignature
           /\ verify(wdSignature, message, wdAddress)

\* C25: createWithdrawTransaction performs its steps in a fixed order.  Its
\* requests are a prefix of: balance (only when the amount is omitted),
\* blockhash, broadcast, confirmation; the request it waits for is the last
\* one issued; nothing is signed before the blockhash arrived; what is
\* broadcast carries the signature made over its message; a call that threw
\* issued nothing after the step that failed (no blockhash request after an
\* insufficient balance, no broadcast after a failed signing); a call that
\* returned has requested the confirmation; with an amount supplied no balance
\* is requested.
C25_WithdrawStepOrder ==
    /\ Len(wdRequests) <= Len(WithdrawSteps)
    /\ \A i \in 1..Len(wdRequests) : wdRequests[i].op = WithdrawSteps[i]
    /\ AwaitedStep # "" => wdRequests[Len(wdRequests)].op = AwaitedStep
    /\ wdPc \in {"idle", "awaitBalance", "awaitBlockhash"} => wdSignature = Null
    /\ \A i \in Broadcasts : SignedBroadcast(i)
    /\ Cardinality(Broadcasts) <= 1
    /\ wdError = "insufficient" =>
           (wdPc = "threw" /\ wdRequests = <<WithdrawRequest("getBalance", wdAddress)>>)
    /\ wdError = "sign" => (wdPc = "threw" /\ Broadcasts = {})
    /\ wdPc = "returned" =>
           (/\ Len(wdRequests) = Len(WithdrawSteps)
            /\ wdRequests[Len(wdRequests)].op = "confirmTransaction")
    /\ wdAmount # NoAmount =>
           (/\ wdBalance = NoAmount
            /\ \A i \in 1..Len(wdRequests) : wdRequests[i].op # "getBalance")

\* a withdrawal of the full balance went through all four requests and returned
C25_Witness ==
    /\ wdPc = "returned"
    /\ wdAmount = NoAmount
    /\ Len(wdRequests) = Len(WithdrawSteps)
    /\ \A i \in Broadcasts : SignedBroadcast(i)
    /\ Broadcasts # {}

-----------------------------------------------------------------------------
\* Claims about what a scan shows the collaborator (under SpecInvocations: two
\* invocations against one ledger, so both get the same answers)

\* the requests of a completed scan of the listed signatures list under limit n
ScanRequests(n, list) ==
    <<SignaturesRequest(n)>> \o [i \in 1..Len(list) |-> TransactionRequest(list[i])]

\* invocations a and b completed, with the same limit and different keys
CompletedWithDistinctKeys(a, b) ==
    /\ invocations[a].pc = "returned"
    /\ invocations[b].pc = "returned"
    /\ invocations[a].limit = invocations[b].limit
    /\ invocations[a].sk # invocations[b].sk

\* C26: the requests of a scan do not depend on the recipient's keys.  Two
\* scans that completed against the same ledger with the same limit and
\* different (metaSk, metaPk) issued the same sequence of requests, and the
\* requests of any completed scan are the signature-list request for the memo
\* program with its limit followed by one transaction request per listed
\* signature: they are built from the limit and the listed signatures alone,
\* whatever the scan found.
C26_RequestsIndependentOfKeys ==
    /\ \A a, b \in Invocations :
           CompletedWithDistinctKeys(a, b) =>
               invocations[a].requests = invocations[b].requests
    /\ \A a \in Invocations :
           invocations[a].pc = "returned" =>
               invocations[a].requests =
                   ScanRequests(invocations[a].limit, invocations[a].sigs)

\* two recipients scanned the whole window of a ledger that holds a transfer
\* to one of them: one scan matched, the other did not
C26_Witness ==
    /\ CompletedWithDistinctKeys("earlier", "later")
    /\ invocations["earlier"].returned # <<>>
    /\ invocations["later"].returned = <<>>
    /\ Len(invocations["earlier"].requests) = 1 + MaxSigs

====
